---- MODULE Spec2Model ----
(***************************************************************************)
(* A model of groto: the proto3 scanner (package scanner), the token kinds *)
(* (package token) and the recursive-descent parser (package parser).      *)
(*                                                                         *)
(* A rune is a one-character string; a Go string or []rune is a sequence   *)
(* of runes.  The rune 0, which the scanner uses as its eof sentinel, is   *)
(* written "NUL".  A *T that may be nil is a sequence of length 0 or 1.    *)
(***************************************************************************)
EXTENDS Integers, Sequences, FiniteSets, TLC

VARIABLES
    scn,     \* scanner under test: the bufio.Reader of a Scanner
    toks,    \* history of the Scan calls made on scn
    frags,   \* the statements the parsed input was assembled from
    p,       \* the parser's peeker: its scanner and its lookahead buffer
    pc,      \* position of Parse: "start", "top", "switch", "done"
    next,    \* the token the top-level switch of parseProto dispatches on
    proto,   \* named result proto of parseProto (nil or one Proto)
    err,     \* named result err of parseProto (nil or one error)
    call     \* the call of package token under test and what it returned

vars == <<scn, toks, frags, p, pc, next, proto, err, call>>

----------------------------------------------------------------------------
(* Bounds *)

MaxNumLen == 4      \* longest input over NumRunes
MaxAnyLen == 3      \* longest input over AnyRunes
MaxScans == 6       \* Scan calls made on one input
MaxStmts == 3       \* statements after the header of a parsed input
MaxItems == 2       \* items of a message body before the last one
MaxFields == 2      \* fields of a oneof
MaxElems == 2       \* elements of a reserved statement
MaxBody == 3        \* items in the body of a oneof
MaxSvcBody == 2     \* items in the body of a service
MaxTop == 3         \* statements of a file after its syntax statement

----------------------------------------------------------------------------
(* Runes and character classes *)

eof == "NUL"
dot == "."
backslash == "\\"
quote == "'"
doubleQuote == "\""
underscore == "_"
lineBreak == "\n"

LowerLetters ==
    {"a","b","c","d","e","f","g","h","i","j","k","l","m",
     "n","o","p","q","r","s","t","u","v","w","x","y","z"}
UpperLetters ==
    {"A","B","C","D","E","F","G","H","I","J","K","L","M",
     "N","O","P","Q","R","S","T","U","V","W","X","Y","Z"}
PunctuationRunes ==
    {".","=","-","+",",",";","(",")","{","}","[","]","<",">"}

isLetter == LowerLetters \cup UpperLetters
isSpace == {" ", "\n", "\t"}
isDecimalDigit == {"0","1","2","3","4","5","6","7","8","9"}
isOctalDigit == {"0","1","2","3","4","5","6","7"}
isHexDigit ==
    isDecimalDigit \cup {"a","b","c","d","e","f"} \cup {"A","B","C","D","E","F"}

\* Every rune the model can put in an input.
Runes ==
    isLetter \cup isDecimalDigit \cup isSpace \cup PunctuationRunes
    \cup {quote, doubleQuote, backslash, underscore, "/", "*", "#", eof}

not(f) == Runes \ f
equals(r) == {r}

----------------------------------------------------------------------------
(* package token *)

KindOrder ==
    << "Illegal", "EOF", "Comment", "Identifier",
       "first_constant", "first_number",
       "DecimalLiteral", "FloatLiteral", "HexLiteral", "OctalLiteral",
       "last_number", "StringLiteral", "first_keyword", "False", "True",
       "last_constant",
       "Enum", "Import", "Map", "Message", "Oneof", "Option", "Package",
       "Public", "Repeated", "Reserved", "Returns", "RPC", "Service",
       "Stream", "Syntax", "To", "Weak", "last_keyword",
       "first_type", "Bytes", "Double", "Float", "first_key_type",
       "Bool", "Fixed32", "Fixed64", "Int32", "Int64", "Sfixed32",
       "Sfixed64", "Sint32", "Sint64", "String", "Uint32", "Uint64",
       "last_type",
       "Dot", "Equals", "Minus", "Plus", "Comma", "Semicolon",
       "OpenParen", "CloseParen", "OpenBrace", "CloseBrace",
       "OpenBracket", "CloseBracket", "OpenAngled", "CloseAngled",
       "last_kind" >>

Kinds == {KindOrder[i] : i \in 1..Len(KindOrder)}

\* The integer value of a kind (iota counts from 0).
Ord(k) == (CHOOSE i \in 1..Len(KindOrder) : KindOrder[i] = k) - 1

IsKeyword(k) == Ord(k) > Ord("first_keyword") /\ Ord(k) < Ord("last_keyword")
IsConstant(k) == Ord(k) > Ord("first_constant") /\ Ord(k) < Ord("last_constant")
IsNumber(k) == Ord(k) > Ord("first_number") /\ Ord(k) < Ord("last_number")
IsType(k) == Ord(k) > Ord("first_type") /\ Ord(k) < Ord("last_type")
\* IsKeyType with the range of IsType.
IsKeyType_fromFirstType(k) == Ord(k) > Ord("first_type") /\ Ord(k) < Ord("last_type")
IsKeyType(k) == Ord(k) > Ord("first_key_type") /\ Ord(k) < Ord("last_type")

\* fmt.Sprintf("%d", n) for n >= 0.
RECURSIVE Sprintd(_)
Sprintd(n) ==
    IF n < 10
    THEN <<(<<"0","1","2","3","4","5","6","7","8","9">>)[n + 1]>>
    ELSE Sprintd(n \div 10) \o Sprintd(n % 10)

\* strings.ToLower(k.String()) for the kinds that from() visits.
LowerName(k) ==
    CASE k = "False" -> <<"f","a","l","s","e">>
      [] k = "True" -> <<"t","r","u","e">>
      [] k = "Enum" -> <<"e","n","u","m">>
      [] k = "Import" -> <<"i","m","p","o","r","t">>
      [] k = "Map" -> <<"m","a","p">>
      [] k = "Message" -> <<"m","e","s","s","a","g","e">>
      [] k = "Oneof" -> <<"o","n","e","o","f">>
      [] k = "Option" -> <<"o","p","t","i","o","n">>
      [] k = "Package" -> <<"p","a","c","k","a","g","e">>
      [] k = "Public" -> <<"p","u","b","l","i","c">>
      [] k = "Repeated" -> <<"r","e","p","e","a","t","e","d">>
      [] k = "Reserved" -> <<"r","e","s","e","r","v","e","d">>
      [] k = "Returns" -> <<"r","e","t","u","r","n","s">>
      [] k = "RPC" -> <<"r","p","c">>
      [] k = "Service" -> <<"s","e","r","v","i","c","e">>
      [] k = "Stream" -> <<"s","t","r","e","a","m">>
      [] k = "Syntax" -> <<"s","y","n","t","a","x">>
      [] k = "To" -> <<"t","o">>
      [] k = "Weak" -> <<"w","e","a","k">>
      [] k = "Bytes" -> <<"b","y","t","e","s">>
      [] k = "Double" -> <<"d","o","u","b","l","e">>
      [] k = "Float" -> <<"f","l","o","a","t">>
      [] k = "Bool" -> <<"b","o","o","l">>
      [] k = "Fixed32" -> <<"f","i","x","e","d","3","2">>
      [] k = "Fixed64" -> <<"f","i","x","e","d","6","4">>
      [] k = "Int32" -> <<"i","n","t","3","2">>
      [] k = "Int64" -> <<"i","n","t","6","4">>
      [] k = "Sfixed32" -> <<"s","f","i","x","e","d","3","2">>
      [] k = "Sfixed64" -> <<"s","f","i","x","e","d","6","4">>
      [] k = "Sint32" -> <<"s","i","n","t","3","2">>
      [] k = "Sint64" -> <<"s","i","n","t","6","4">>
      [] k = "String" -> <<"s","t","r","i","n","g">>
      [] k = "Uint32" -> <<"u","i","n","t","3","2">>
      [] k = "Uint64" -> <<"u","i","n","t","6","4">>
      [] OTHER -> <<"u","n","k","o","w","n"," ","t","o","k","e","n",
                    " ","k","i","n","d"," ">> \o Sprintd(Ord(k))

\* from(a, b): the kinds strictly between a and b, keyed by lower-case name.
from(a, b) == {k \in Kinds : Ord(k) > Ord(a) /\ Ord(k) < Ord(b)}

\* m[s] of a map built by from(): the zero Kind, Illegal, when s is no key.
Lookup(m, s) ==
    IF \E k \in m : LowerName(k) = s
    THEN CHOOSE k \in m : LowerName(k) = s
    ELSE "Illegal"

keywords == from("first_keyword", "last_keyword")
types == from("first_type", "last_type")

Keyword(s) == Lookup(keywords, s)
Type(s) == Lookup(types, s)

Punctuation(s) ==
    CASE s = <<".">> -> "Dot"
      [] s = <<"=">> -> "Equals"
      [] s = <<"-">> -> "Minus"
      [] s = <<"+">> -> "Plus"
      [] s = <<",">> -> "Comma"
      [] s = <<";">> -> "Semicolon"
      [] s = <<"(">> -> "OpenParen"
      [] s = <<")">> -> "CloseParen"
      [] s = <<"{">> -> "OpenBrace"
      [] s = <<"}">> -> "CloseBrace"
      [] s = <<"[">> -> "OpenBracket"
      [] s = <<"]">> -> "CloseBracket"
      [] s = <<"<">> -> "OpenAngled"
      [] s = <<">">> -> "CloseAngled"
      [] OTHER -> "Illegal"

----------------------------------------------------------------------------
(* package scanner *)

\* The value of a function of one argument.  Only([x \in {v} |-> e]) reads
\* as the Go statement x := v followed by e.
Only(f) == f[CHOOSE x \in DOMAIN f : TRUE]

NoPanic == <<>>

\* scanner.New(r): a bufio.Reader at the start of its input.  pos counts the
\* runes read; last tells whether UnreadRune is allowed (lastRuneSize >= 0).
New(src) == [src |-> src, pos |-> 0, last |-> FALSE, panic |-> NoPanic]

\* A scanner.Token.
emit(kind, value) == [Kind |-> kind, Text |-> value]

read(s) ==
    IF s.panic # NoPanic THEN [r |-> eof, s |-> s]
    ELSE IF s.pos < Len(s.src)
    THEN [r |-> s.src[s.pos + 1],
          s |-> [s EXCEPT !.pos = s.pos + 1, !.last = TRUE]]
    ELSE [r |-> eof, s |-> [s EXCEPT !.last = FALSE]]

unread(s) ==
    IF s.panic # NoPanic THEN s
    ELSE IF ~s.last
    THEN [s EXCEPT !.panic = <<"bufio: invalid use of UnreadRune">>]
    ELSE [s EXCEPT !.pos = s.pos - 1, !.last = FALSE]

peek(s) ==
    Only([rd \in {read(s)} |->
      IF rd.r # eof THEN [r |-> rd.r, s |-> unread(rd.s)] ELSE rd])

RECURSIVE readUntilFrom(_, _, _)
readUntilFrom(s, pr, value) ==
    Only([rd \in {read(s)} |->
      IF s.panic # NoPanic THEN [value |-> value, s |-> s]
      ELSE IF rd.r = eof THEN [value |-> value, s |-> rd.s]
      ELSE IF rd.r \in pr THEN [value |-> value, s |-> unread(rd.s)]
      ELSE readUntilFrom(rd.s, pr, Append(value, rd.r))])

readUntil(s, pr) == readUntilFrom(s, pr, <<>>)

readWhile(s, pr) == readUntil(s, not(pr))

\* IDENTIFIERS

\* identifier keeping the text of a keyword and of a type.
identifier_keepsText(s) ==
    Only([w \in {readWhile(s, isLetter \cup isDecimalDigit \cup equals(underscore))} |->
    Only([text \in {w.value} |->
    Only([tok \in {IF text = <<"t","r","u","e">> THEN emit("True", <<>>)
                  ELSE IF text = <<"f","a","l","s","e">> THEN emit("False", <<>>)
                  ELSE IF Keyword(text) # "Illegal" THEN emit(Keyword(text), text)
                  ELSE IF Type(text) # "Illegal" THEN emit(Type(text), text)
                  ELSE emit("Identifier", text)} |->
      [tok |-> tok, s |-> w.s]])])])

identifier(s) ==
    Only([w \in {readWhile(s, isLetter \cup isDecimalDigit \cup equals(underscore))} |->
    Only([text \in {w.value} |->
    Only([tok \in {IF text = <<"t","r","u","e">> THEN emit("True", <<>>)
                  ELSE IF text = <<"f","a","l","s","e">> THEN emit("False", <<>>)
                  ELSE IF Keyword(text) # "Illegal" THEN emit(Keyword(text), <<>>)
                  ELSE IF Type(text) # "Illegal" THEN emit(Type(text), <<>>)
                  ELSE emit("Identifier", text)} |->
      [tok |-> tok, s |-> w.s]])])])

\* STRINGS

RECURSIVE stringLoop(_, _, _)
stringLoop(s, first, value) ==
    Only([u \in {readUntil(s, equals(first))} |->
    Only([rd \in {read(u.s)} |->
    Only([value2 \in {Append(value \o u.value, rd.r)} |->
      IF Len(value2) = 2 \/ value2[Len(value2) - 1] # backslash
      THEN [tok |-> emit("StringLiteral", value2), s |-> rd.s]
      ELSE stringLoop(rd.s, first, value2)])])])

string(s) ==
    Only([rd \in {read(s)} |->
      stringLoop(rd.s, rd.r, <<rd.r>>)])

\* COMMENTS

comment(s) ==
    Only([r1 \in {read(s)} |->
    Only([r2 \in {read(r1.s)} |->
    Only([value \in {<<r1.r, r2.r>>} |->
    Only([u \in {readUntil(r2.s, equals("\n"))} |->
      IF value # <<"/", "/">>
      THEN [tok |-> emit("Illegal", value), s |-> r2.s]
      ELSE [tok |-> emit("Comment", value \o u.value), s |-> u.s]])])])])

\* NUMBERS

octal(s, value) ==
    Only([w \in {readWhile(s, isOctalDigit)} |->
    Only([value2 \in {value \o w.value} |->
    Only([pk \in {peek(w.s)} |->
    Only([rd \in {read(pk.s)} |->
      IF pk.r \in isDecimalDigit
      THEN [tok |-> emit("Illegal", Append(value2, rd.r)), s |-> rd.s]
      ELSE [tok |-> emit("OctalLiteral", value2), s |-> pk.s]])])])])

hex(s, value) ==
    Only([w \in {readWhile(s, isHexDigit)} |->
    Only([value2 \in {value \o w.value} |->
      IF Len(value2) = 2
      THEN [tok |-> emit("Illegal", value2), s |-> w.s]
      ELSE [tok |-> emit("HexLiteral", value2), s |-> w.s]])])

\* exponent with the rune after the marker peeked at, not read.
exponent_peekSign(s, tok, value, nxt) ==
    Only([rd \in {read(s)} |->
    Only([sg \in {peek(rd.s)} |->
    Only([sign \in {sg.r} |->
    Only([value2 \in {value \o <<nxt, sign>>} |->
    Only([w \in {readWhile(read(sg.s).s, isDecimalDigit)} |->
      IF nxt = "E" \/ nxt = "e"
      THEN IF sign # "+" /\ sign # "-"
           THEN [tok |-> emit("Illegal", value2), s |-> sg.s]
           ELSE [tok |-> emit("FloatLiteral", value2 \o w.value), s |-> w.s]
      ELSE [tok |-> emit(tok, value), s |-> s]])])])])])

\* The part of number() from "if next == 'E' || next == 'e'" to the end.
exponent(s, tok, value, nxt) ==
    Only([rd \in {read(s)} |->
    Only([sg \in {read(rd.s)} |->
    Only([sign \in {sg.r} |->
    Only([value2 \in {value \o <<nxt, sign>>} |->
    Only([w \in {readWhile(sg.s, isDecimalDigit)} |->
      IF nxt = "E" \/ nxt = "e"
      THEN IF sign # "+" /\ sign # "-"
           THEN [tok |-> emit("Illegal", value2), s |-> sg.s]
           ELSE [tok |-> emit("FloatLiteral", value2 \o w.value), s |-> w.s]
      ELSE [tok |-> emit(tok, value), s |-> s]])])])])])

\* The part of number() from "next := s.peek()" on.
fraction(s, value) ==
    Only([pk \in {peek(s)} |->
    Only([rd \in {read(pk.s)} |->
    Only([w \in {readWhile(rd.s, isDecimalDigit)} |->
    Only([pk2 \in {peek(w.s)} |->
      IF pk.r = dot
      THEN exponent(pk2.s, "FloatLiteral", (value \o <<dot>>) \o w.value, pk2.r)
      ELSE exponent(pk.s, "DecimalLiteral", value, pk.r)])])])])

number(s) ==
    Only([rd \in {read(s)} |->
    Only([first \in {rd.r} |->
    Only([pk \in {peek(rd.s)} |->
    Only([second \in {pk.r} |->
    Only([w \in {readWhile(pk.s, isDecimalDigit)} |->
      IF first = "0" /\ second \in isDecimalDigit
      THEN octal(pk.s, <<first>>)
      ELSE IF first = "0" /\ (second = "x" \/ second = "X")
      THEN hex(read(pk.s).s, <<first, second>>)
      ELSE fraction(w.s, <<first>> \o w.value)])])])])])

\* Scan leaving a rune that starts no token where it is.
Scan_illegalUnread(s) ==
    Only([w \in {readWhile(s, isSpace)} |->
    Only([pk \in {peek(w.s)} |->
    Only([r \in {pk.r} |->
    Only([rd \in {read(pk.s)} |->
      IF r = eof THEN [tok |-> emit("EOF", <<>>), s |-> pk.s]
      ELSE IF r \in isLetter THEN identifier(pk.s)
      ELSE IF r \in isDecimalDigit THEN number(pk.s)
      ELSE IF r = quote \/ r = doubleQuote THEN string(pk.s)
      ELSE IF r = "/" THEN comment(pk.s)
      ELSE IF Punctuation(<<r>>) # "Illegal"
      THEN [tok |-> emit(Punctuation(<<r>>), <<>>), s |-> rd.s]
      ELSE [tok |-> emit("Illegal", <<r>>), s |-> pk.s]])])])])

Scan(s) ==
    Only([w \in {readWhile(s, isSpace)} |->
    Only([pk \in {peek(w.s)} |->
    Only([r \in {pk.r} |->
    Only([rd \in {read(pk.s)} |->
      IF r = eof THEN [tok |-> emit("EOF", <<>>), s |-> pk.s]
      ELSE IF r \in isLetter THEN identifier(pk.s)
      ELSE IF r \in isDecimalDigit THEN number(pk.s)
      ELSE IF r = quote \/ r = doubleQuote THEN string(pk.s)
      ELSE IF r = "/" THEN comment(pk.s)
      ELSE IF Punctuation(<<r>>) # "Illegal"
      THEN [tok |-> emit(Punctuation(<<r>>), <<>>), s |-> rd.s]
      ELSE [tok |-> emit("Illegal", <<r>>), s |-> rd.s]])])])])

----------------------------------------------------------------------------
(* package parser: the peeker *)

\* The zero scanner.Token.
NoToken == [Kind |-> "Illegal", Text |-> <<>>]

\* What the successive calls of s.Scan() return and where each leaves the
\* reader, up to the call that returns at the end of the input; every later
\* call returns what that one did.
Scanned(res) ==
    [tok |-> res.tok, pos |-> res.s.pos, last |-> res.s.last,
     panic |-> res.s.panic]

RECURSIVE ScanAll(_)
ScanAll(s) ==
    Only([res \in {Scan(s)} |->
      IF (res.tok.Kind = "EOF" /\ res.s.pos = Len(s.src)) \/ res.s.panic # NoPanic
      THEN <<Scanned(res)>>
      ELSE <<Scanned(res)>> \o ScanAll(res.s)])

\* &peeker{s: scanner.New(r)}.  scans holds what the calls of p.s.Scan()
\* return, k counts the calls made; n counts the tokens that scan has handed
\* out; panic holds the value panic was called with, once it was called.
NewPeeker(src) ==
    [s |-> New(src), scans |-> ScanAll(New(src)), k |-> 0, peeked |-> <<>>,
     n |-> 0, panic |-> NoPanic]

panicf(pk, msg) == IF pk.panic # NoPanic THEN pk ELSE [pk EXCEPT !.panic = msg]

\* tok := p.s.Scan()
peeker_s_Scan(pk) ==
    Only([e \in {pk.scans[IF pk.k < Len(pk.scans) THEN pk.k + 1
                          ELSE Len(pk.scans)]} |->
      [tok |-> e.tok,
       p |-> [pk EXCEPT !.k = pk.k + 1,
                        !.s = [@ EXCEPT !.pos = e.pos, !.last = e.last,
                                        !.panic = e.panic]]]])

\* tok := p.s.Scan(); for tok.Kind == token.Comment { tok = p.s.Scan() }
RECURSIVE scanSkippingComments(_)
scanSkippingComments(pk) ==
    Only([res \in {peeker_s_Scan(pk)} |->
      IF res.tok.Kind = "Comment" /\ res.p.s.panic = NoPanic
      THEN scanSkippingComments(res.p)
      ELSE res])

peeker_scan(pk) ==
    Only([res \in {scanSkippingComments(pk)} |->
      IF pk.panic # NoPanic THEN [tok |-> NoToken, p |-> pk]
      ELSE IF pk.peeked # <<>>
      THEN [tok |-> pk.peeked[1],
            p |-> [pk EXCEPT !.peeked = <<>>, !.n = pk.n + 1]]
      ELSE [tok |-> res.tok,
            p |-> [res.p EXCEPT !.n = pk.n + 1, !.panic = res.p.s.panic]]])

peeker_peek(pk) ==
    Only([res \in {scanSkippingComments(pk)} |->
      IF pk.panic # NoPanic THEN [tok |-> NoToken, p |-> pk]
      ELSE IF pk.peeked # <<>>
      THEN [tok |-> pk.peeked[1], p |-> pk]
      ELSE [tok |-> res.tok,
            p |-> [res.p EXCEPT !.peeked = <<res.tok>>,
                                !.panic = res.p.s.panic]]])

\* Whether kind is one of the kinds of the list toks.
OneOfKinds(kind, kinds) == \E i \in 1..Len(kinds) : kinds[i] = kind

consume(pk, kinds) ==
    Only([sc \in {peeker_scan(pk)} |->
      IF OneOfKinds(sc.tok.Kind, kinds)
      THEN sc
      ELSE [tok |-> sc.tok,
            p |-> panicf(sc.p, <<"expected %v, got %s", kinds, sc.tok>>)]])

\* maybeConsume scanning whether or not the kind is one of kinds.
maybeConsume_scanAlways(pk, kinds) ==
    Only([got \in {peeker_peek(pk)} |->
      IF OneOfKinds(got.tok.Kind, kinds)
      THEN [tok |-> got.tok, ok |-> TRUE, p |-> peeker_scan(got.p).p]
      ELSE [tok |-> got.tok, ok |-> FALSE, p |-> peeker_scan(got.p).p]])

maybeConsume(pk, kinds) ==
    Only([got \in {peeker_peek(pk)} |->
      IF OneOfKinds(got.tok.Kind, kinds)
      THEN [tok |-> got.tok, ok |-> TRUE, p |-> peeker_scan(got.p).p]
      ELSE [tok |-> got.tok, ok |-> FALSE, p |-> got.p]])

----------------------------------------------------------------------------
(* package parser: the productions.  Each takes the peeker and returns the *)
(* peeker it leaves and the node it built; once the peeker holds a panic   *)
(* the production has been abandoned and the node means nothing.           *)

RECURSIVE fullIdentifierLoop(_, _)
fullIdentifierLoop(pk, ident) ==
    Only([d \in {peeker_peek(pk)} |->
    Only([c \in {consume(peeker_scan(d.p).p, <<"Identifier">>)} |->
      IF pk.panic # NoPanic \/ d.tok.Kind # "Dot"
      THEN [p |-> d.p, v |-> ident]
      ELSE fullIdentifierLoop(c.p, Append(ident, c.tok))])])

parseFullIdentifier(pk) ==
    Only([c \in {consume(pk, <<"Identifier">>)} |->
      fullIdentifierLoop(c.p, <<c.tok>>)])

\* The three things an Option's Value interface{} can hold.
TokenValue(tok) ==
    [Is |-> "Token", Token |-> tok, Sign |-> NoToken, Ident |-> <<>>]
SignedNumber(sign, numb) ==
    [Is |-> "SignedNumber", Token |-> numb, Sign |-> sign, Ident |-> <<>>]
IdentValue(ident) ==
    [Is |-> "FullIdentifier", Token |-> NoToken, Sign |-> NoToken, Ident |-> ident]

\* parseConstant taking whatever follows the sign for the number.
parseConstant_anyAfterSign(pk) ==
    Only([nx \in {peeker_peek(pk)} |->
    Only([sc \in {peeker_scan(nx.p)} |->
    Only([num \in {peeker_scan(sc.p)} |->
    Only([id \in {parseFullIdentifier(nx.p)} |->
      IF IsConstant(nx.tok.Kind)
      THEN [p |-> sc.p, v |-> TokenValue(sc.tok)]
      ELSE IF nx.tok.Kind = "Plus" \/ nx.tok.Kind = "Minus"
      THEN [p |-> num.p, v |-> SignedNumber(nx.tok, num.tok)]
      ELSE IF nx.tok.Kind = "Identifier"
      THEN [p |-> id.p, v |-> IdentValue(id.v)]
      ELSE [p |-> panicf(nx.p, <<"expected a valid constant value, but got %s",
                                 nx.tok>>),
            v |-> TokenValue(NoToken)]])])])])

parseConstant(pk) ==
    Only([nx \in {peeker_peek(pk)} |->
    Only([sc \in {peeker_scan(nx.p)} |->
    Only([num \in {peeker_scan(sc.p)} |->
    Only([id \in {parseFullIdentifier(nx.p)} |->
      IF IsConstant(nx.tok.Kind)
      THEN [p |-> sc.p, v |-> TokenValue(sc.tok)]
      ELSE IF nx.tok.Kind = "Plus" \/ nx.tok.Kind = "Minus"
      THEN IF ~IsNumber(num.tok.Kind)
           THEN [p |-> panicf(num.p, <<"expected number after %v, got %v",
                                          nx.tok.Kind, num.tok.Kind>>),
                 v |-> TokenValue(NoToken)]
           ELSE [p |-> num.p, v |-> SignedNumber(nx.tok, num.tok)]
      ELSE IF nx.tok.Kind = "Identifier"
      THEN [p |-> id.p, v |-> IdentValue(id.v)]
      ELSE [p |-> panicf(nx.p, <<"expected a valid constant value, but got %s",
                                 nx.tok>>),
            v |-> TokenValue(NoToken)]])])])])

parseSyntax(pk) ==
    Only([c1 \in {consume(pk, <<"Syntax">>)} |->
    Only([c2 \in {consume(c1.p, <<"Equals">>)} |->
    Only([value \in {consume(c2.p, <<"StringLiteral">>)} |->
    Only([text \in {value.tok.Text} |->
    Only([p3 \in {IF text # <<"\"","p","r","o","t","o","3","\"">>
                    /\ text # <<"'","p","r","o","t","o","3","'">>
                 THEN panicf(value.p,
                         <<"expected literal string \"proto3\", got %s instead", text>>)
                 ELSE value.p} |->
    Only([c4 \in {consume(p3, <<"Semicolon">>)} |->
      [p |-> c4.p, v |-> [Value |-> value.tok]]])])])])])])

parseImport(pk) ==
    Only([c1 \in {consume(pk, <<"Import">>)} |->
    Only([m \in {maybeConsume(c1.p, <<"Weak", "Public">>)} |->
    Only([mod \in {IF m.ok THEN m.tok ELSE NoToken} |->
    Only([path \in {consume(m.p, <<"StringLiteral">>)} |->
    Only([c2 \in {consume(path.p, <<"Semicolon">>)} |->
      [p |-> c2.p, v |-> [Modifier |-> mod, Path |-> path.tok]]])])])])])

parsePackage(pk) ==
    Only([c1 \in {consume(pk, <<"Package">>)} |->
    Only([ident \in {parseFullIdentifier(c1.p)} |->
    Only([c2 \in {consume(ident.p, <<"Semicolon">>)} |->
      [p |-> c2.p, v |-> [Identifier |-> ident.v]]])])])

parseFieldOption(pk) ==
    Only([m \in {maybeConsume(pk, <<"OpenParen">>)} |->
    Only([pre \in {parseFullIdentifier(m.p)} |->
    Only([c1 \in {consume(pre.p, <<"CloseParen">>)} |->
    Only([p1 \in {IF m.ok THEN c1.p ELSE m.p} |->
    Only([Prefix \in {IF m.ok THEN pre.v ELSE <<>>} |->
    Only([nx \in {peeker_peek(p1)} |->
    Only([nm \in {parseFullIdentifier(nx.p)} |->
    Only([p2 \in {IF nx.tok.Kind = "Identifier" THEN nm.p ELSE nx.p} |->
    Only([Name \in {IF nx.tok.Kind = "Identifier" THEN nm.v ELSE <<>>} |->
    Only([p3 \in {IF Prefix = <<>> /\ Name = <<>>
                 THEN panicf(p2, <<"missing name in option">>)
                 ELSE p2} |->
    Only([c2 \in {consume(p3, <<"Equals">>)} |->
    Only([value \in {parseConstant(c2.p)} |->
      [p |-> value.p,
       v |-> [Prefix |-> Prefix, Name |-> Name, Value |-> value.v]]])])])])])])])])])])])])

parseOption(pk) ==
    Only([c1 \in {consume(pk, <<"Option">>)} |->
    Only([opt \in {parseFieldOption(c1.p)} |->
    Only([c2 \in {consume(opt.p, <<"Semicolon">>)} |->
      [p |-> c2.p, v |-> opt.v]])])])

RECURSIVE fieldOptionsLoop(_, _)
fieldOptionsLoop(pk, opts) ==
    Only([opt \in {parseFieldOption(pk)} |->
    Only([m \in {maybeConsume(opt.p, <<"CloseBracket">>)} |->
    Only([c \in {consume(m.p, <<"Comma">>)} |->
      IF pk.panic # NoPanic THEN [p |-> pk, v |-> opts]
      ELSE IF m.ok THEN [p |-> m.p, v |-> Append(opts, opt.v)]
      ELSE fieldOptionsLoop(c.p, Append(opts, opt.v))])])])

parseFieldOptions(pk) ==
    Only([m \in {maybeConsume(pk, <<"OpenBracket">>)} |->
      IF ~m.ok THEN [p |-> m.p, v |-> <<>>] ELSE fieldOptionsLoop(m.p, <<>>)])

parseOneOfField(pk) ==
    Only([typ \in {peeker_scan(pk)} |->
    Only([p1 \in {IF typ.tok.Kind # "Identifier" /\ ~IsType(typ.tok.Kind)
                 THEN panicf(typ.p, <<"expected field type, got %s", typ.tok>>)
                 ELSE typ.p} |->
    Only([name \in {consume(p1, <<"Identifier">>)} |->
    Only([c1 \in {consume(name.p, <<"Equals">>)} |->
    Only([num \in {consume(c1.p, <<"DecimalLiteral">>)} |->
    Only([opts \in {parseFieldOptions(num.p)} |->
    Only([c2 \in {consume(opts.p, <<"Semicolon">>)} |->
      [p |-> c2.p,
       v |-> [Type |-> typ.tok, Name |-> name.tok, Number |-> num.tok,
              Options |-> opts.v]]])])])])])])])

parseField(pk) ==
    Only([m \in {maybeConsume(pk, <<"Repeated">>)} |->
    Only([f \in {parseOneOfField(m.p)} |->
      [p |-> f.p,
       v |-> [Repeated |-> m.ok, Type |-> f.v.Type, Name |-> f.v.Name,
              Number |-> f.v.Number, Options |-> f.v.Options]]])])

parseEnumField(pk) ==
    Only([name \in {consume(pk, <<"Identifier">>)} |->
    Only([c1 \in {consume(name.p, <<"Equals">>)} |->
    Only([num \in {consume(c1.p, <<"DecimalLiteral">>)} |->
    Only([opts \in {parseFieldOptions(num.p)} |->
    Only([c2 \in {consume(opts.p, <<"Semicolon">>)} |->
      [p |-> c2.p,
       v |-> [Name |-> name.tok, Number |-> num.tok, Options |-> opts.v]]])])])])])

RECURSIVE enumLoop(_, _)
enumLoop(pk, enum) ==
    Only([nx \in {peeker_peek(pk)} |->
    Only([kind \in {nx.tok.Kind} |->
    Only([f \in {parseEnumField(nx.p)} |->
    Only([o \in {parseOption(nx.p)} |->
    Only([sc \in {peeker_scan(nx.p)} |->
      IF pk.panic # NoPanic THEN [p |-> pk, v |-> enum]
      ELSE IF IsType(kind) \/ kind = "Identifier" \/ kind = "Repeated"
      THEN enumLoop(f.p, [enum EXCEPT !.Fields = Append(@, f.v)])
      ELSE IF kind = "Option"
      THEN enumLoop(o.p, [enum EXCEPT !.Options = Append(@, o.v)])
      ELSE IF kind = "CloseBrace"
      THEN [p |-> sc.p, v |-> enum]
      ELSE [p |-> panicf(sc.p,
                    <<"expected '}' to end message definition, got %s", sc.tok>>),
            v |-> enum]])])])])])

parseEnum(pk) ==
    Only([c1 \in {consume(pk, <<"Enum">>)} |->
    Only([name \in {consume(c1.p, <<"Identifier">>)} |->
    Only([c2 \in {consume(name.p, <<"OpenBrace">>)} |->
      enumLoop(c2.p, [Name |-> name.tok, Fields |-> <<>>, Options |-> <<>>])])])])

RECURSIVE oneOfLoop(_, _)
oneOfLoop(pk, o) ==
    Only([m \in {maybeConsume(pk, <<"CloseBrace">>)} |->
    Only([f \in {parseOneOfField(m.p)} |->
      IF pk.panic # NoPanic \/ m.ok THEN [p |-> m.p, v |-> o]
      ELSE oneOfLoop(f.p, [o EXCEPT !.Fields = Append(@, f.v)])])])

parseOneOf(pk) ==
    Only([c1 \in {consume(pk, <<"Oneof">>)} |->
    Only([name \in {consume(c1.p, <<"Identifier">>)} |->
    Only([c2 \in {consume(name.p, <<"OpenBrace">>)} |->
      oneOfLoop(c2.p, [Name |-> name.tok, Fields |-> <<>>])])])])

\* A Type holds a predefined type token or a user-defined full identifier.
parseType(pk) ==
    Only([nx \in {peeker_peek(pk)} |->
    Only([sc \in {peeker_scan(nx.p)} |->
    Only([id \in {parseFullIdentifier(nx.p)} |->
      IF IsType(nx.tok.Kind)
      THEN [p |-> sc.p, v |-> [Predefined |-> sc.tok, UserDefined |-> <<>>]]
      ELSE [p |-> id.p, v |-> [Predefined |-> NoToken, UserDefined |-> id.v]]])])])

\* parseMap taking every predefined type as the key type.
parseMap_anyType(pk) ==
    Only([c1 \in {consume(pk, <<"Map">>)} |->
    Only([c2 \in {consume(c1.p, <<"OpenAngled">>)} |->
    Only([key \in {peeker_scan(c2.p)} |->
    Only([p1 \in {IF ~IsType(key.tok.Kind)
                 THEN panicf(key.p, <<"expected key type, got %s", key.tok>>)
                 ELSE key.p} |->
    Only([c3 \in {consume(p1, <<"Comma">>)} |->
    Only([value \in {parseType(c3.p)} |->
    Only([c4 \in {consume(value.p, <<"CloseAngled">>)} |->
    Only([name \in {consume(c4.p, <<"Identifier">>)} |->
    Only([c5 \in {consume(name.p, <<"Equals">>)} |->
    Only([num \in {consume(c5.p, <<"DecimalLiteral">>)} |->
    Only([opts \in {parseFieldOptions(num.p)} |->
    Only([c6 \in {consume(opts.p, <<"Semicolon">>)} |->
      [p |-> c6.p,
       v |-> [KeyType |-> key.tok, ValueType |-> value.v, Name |-> name.tok,
              Number |-> num.tok, Options |-> opts.v]]])])])])])])])])])])])])

parseMap(pk) ==
    Only([c1 \in {consume(pk, <<"Map">>)} |->
    Only([c2 \in {consume(c1.p, <<"OpenAngled">>)} |->
    Only([key \in {peeker_scan(c2.p)} |->
    Only([p1 \in {IF ~IsKeyType(key.tok.Kind)
                 THEN panicf(key.p, <<"expected key type, got %s", key.tok>>)
                 ELSE key.p} |->
    Only([c3 \in {consume(p1, <<"Comma">>)} |->
    Only([value \in {parseType(c3.p)} |->
    Only([c4 \in {consume(value.p, <<"CloseAngled">>)} |->
    Only([name \in {consume(c4.p, <<"Identifier">>)} |->
    Only([c5 \in {consume(name.p, <<"Equals">>)} |->
    Only([num \in {consume(c5.p, <<"DecimalLiteral">>)} |->
    Only([opts \in {parseFieldOptions(num.p)} |->
    Only([c6 \in {consume(opts.p, <<"Semicolon">>)} |->
      [p |-> c6.p,
       v |-> [KeyType |-> key.tok, ValueType |-> value.v, Name |-> name.tok,
              Number |-> num.tok, Options |-> opts.v]]])])])])])])])])])])])])

RECURSIVE reservedLoop(_, _)
reservedLoop(pk, res) ==
    Only([m \in {maybeConsume(pk, <<"DecimalLiteral", "StringLiteral">>)} |->
    Only([from_ \in {m.tok} |->
    Only([p1 \in {IF ~m.ok
                 THEN panicf(m.p, <<"expected decimal literal or string, got %s", from_>>)
                 ELSE m.p} |->
    Only([to \in {maybeConsume(p1, <<"To">>)} |->
    Only([upper \in {consume(to.p, <<from_.Kind>>)} |->
    Only([p2 \in {IF to.ok THEN upper.p ELSE to.p} |->
    Only([res2 \in {IF to.ok
                   THEN [res EXCEPT !.Ranges = Append(@, [From |-> from_, To |-> upper.tok])]
                   ELSE IF from_.Kind = "DecimalLiteral"
                   THEN [res EXCEPT !.IDs = Append(@, from_)]
                   ELSE [res EXCEPT !.Names = Append(@, from_)]} |->
    Only([semi \in {maybeConsume(p2, <<"Semicolon">>)} |->
    Only([c \in {consume(semi.p, <<"Comma">>)} |->
      IF pk.panic # NoPanic THEN [p |-> pk, v |-> res]
      ELSE IF semi.ok THEN [p |-> semi.p, v |-> res2]
      ELSE reservedLoop(c.p, res2)])])])])])])])])])

parseReserved(pk) ==
    Only([c1 \in {consume(pk, <<"Reserved">>)} |->
      reservedLoop(c1.p, [IDs |-> <<>>, Names |-> <<>>, Ranges |-> <<>>])])

RECURSIVE parseMessage(_)
RECURSIVE messageLoop(_, _)
messageLoop(pk, msg) ==
    Only([nx \in {peeker_peek(pk)} |->
    Only([kind \in {nx.tok.Kind} |->
    Only([sc \in {peeker_scan(nx.p)} |->
      IF pk.panic # NoPanic THEN [p |-> pk, v |-> msg]
      ELSE IF IsType(kind) \/ kind = "Identifier" \/ kind = "Repeated"
      THEN Only([f \in {parseField(nx.p)} |->
             messageLoop(f.p, [msg EXCEPT !.Fields = Append(@, f.v)])])
      ELSE IF kind = "Enum"
      THEN Only([e \in {parseEnum(nx.p)} |->
             messageLoop(e.p, [msg EXCEPT !.Enums = Append(@, e.v)])])
      ELSE IF kind = "Message"
      THEN Only([m \in {parseMessage(nx.p)} |->
             messageLoop(m.p, [msg EXCEPT !.Messages = Append(@, m.v)])])
      ELSE IF kind = "Option"
      THEN Only([o \in {parseOption(nx.p)} |->
             messageLoop(o.p, [msg EXCEPT !.Options = Append(@, o.v)])])
      ELSE IF kind = "Oneof"
      THEN Only([o \in {parseOneOf(nx.p)} |->
             messageLoop(o.p, [msg EXCEPT !.OneOfs = Append(@, o.v)])])
      ELSE IF kind = "Map"
      THEN Only([m \in {parseMap(nx.p)} |->
             messageLoop(m.p, [msg EXCEPT !.Maps = Append(@, m.v)])])
      ELSE IF kind = "Reserved"
      THEN Only([r \in {parseReserved(nx.p)} |->
             messageLoop(r.p, [msg EXCEPT !.Reserveds = Append(@, r.v)])])
      ELSE IF kind = "Semicolon"
      THEN messageLoop(sc.p, msg)
      ELSE IF kind = "CloseBrace"
      THEN [p |-> sc.p, v |-> msg]
      ELSE [p |-> panicf(sc.p,
                    <<"expected '}' to end message definition, got %s", sc.tok>>),
            v |-> msg]])])])

parseMessage(pk) ==
    Only([c1 \in {consume(pk, <<"Message">>)} |->
    Only([name \in {consume(c1.p, <<"Identifier">>)} |->
    Only([c2 \in {consume(name.p, <<"OpenBrace">>)} |->
      messageLoop(c2.p,
         [Name |-> name.tok, Fields |-> <<>>, Enums |-> <<>>, Messages |-> <<>>,
          Options |-> <<>>, OneOfs |-> <<>>, Maps |-> <<>>, Reserveds |-> <<>>])])])])

parseRPCParam(pk) ==
    Only([c1 \in {consume(pk, <<"OpenParen">>)} |->
    Only([m \in {maybeConsume(c1.p, <<"Stream">>)} |->
    Only([typ \in {parseFullIdentifier(m.p)} |->
    Only([c2 \in {consume(typ.p, <<"CloseParen">>)} |->
      [p |-> c2.p, v |-> [Stream |-> m.ok, Type |-> typ.v]]])])])])

RECURSIVE rpcOptionsLoop(_, _)
rpcOptionsLoop(pk, rpc) ==
    Only([m \in {maybeConsume(pk, <<"CloseBrace">>)} |->
    Only([o \in {parseOption(m.p)} |->
      IF pk.panic # NoPanic \/ m.ok THEN [p |-> m.p, v |-> rpc]
      ELSE rpcOptionsLoop(o.p, [rpc EXCEPT !.Options = Append(@, o.v)])])])

parseRPC(pk) ==
    Only([c1 \in {consume(pk, <<"RPC">>)} |->
    Only([name \in {consume(c1.p, <<"Identifier">>)} |->
    Only([in \in {parseRPCParam(name.p)} |->
    Only([c2 \in {consume(in.p, <<"Returns">>)} |->
    Only([out \in {parseRPCParam(c2.p)} |->
    Only([rpc \in {[Name |-> name.tok, In |-> in.v, Out |-> out.v, Options |-> <<>>]} |->
    Only([m \in {maybeConsume(out.p, <<"Semicolon">>)} |->
    Only([c3 \in {consume(m.p, <<"OpenBrace">>)} |->
      IF m.ok THEN [p |-> m.p, v |-> rpc] ELSE rpcOptionsLoop(c3.p, rpc)])])])])])])])])

RECURSIVE serviceLoop(_, _)
serviceLoop(pk, svc) ==
    Only([nx \in {peeker_peek(pk)} |->
    Only([kind \in {nx.tok.Kind} |->
    Only([o \in {parseOption(nx.p)} |->
    Only([r \in {parseRPC(nx.p)} |->
      IF pk.panic # NoPanic THEN [p |-> pk, v |-> svc]
      ELSE IF kind = "Option"
      THEN serviceLoop(o.p, [svc EXCEPT !.Options = Append(@, o.v)])
      ELSE IF kind = "RPC"
      THEN serviceLoop(r.p, [svc EXCEPT !.RPCs = Append(@, r.v)])
      ELSE IF kind = "CloseBrace"
      THEN [p |-> peeker_scan(nx.p).p, v |-> svc]
      ELSE [p |-> panicf(nx.p,
                    <<"expected option or rpc in service, got %s", nx.tok>>),
            v |-> svc]])])])])

parseService(pk) ==
    Only([c1 \in {consume(pk, <<"Service">>)} |->
    Only([name \in {consume(c1.p, <<"Identifier">>)} |->
    Only([c2 \in {consume(name.p, <<"OpenBrace">>)} |->
      serviceLoop(c2.p, [Name |-> name.tok, Options |-> <<>>, RPCs |-> <<>>])])])])

----------------------------------------------------------------------------
(* The scanner on its own: a caller that calls Scan again and again. *)

\* All sequences over the runes rs of length at most n.
Strings(rs, n) == UNION {[1..k -> rs] : k \in 0..n}

NumRunes == {"0", "1", "8", "x", "e", ".", "+", ";", eof}
AnyRunes == {"a", "0", "e", "'", "\"", backslash, "/", lineBreak, " ", "#",
             ";", eof}

\* Words: the spelling of every keyword and of every predefined type, and
\* words that are none of these; each alone and with one more rune.
ScanWords ==
    {LowerName(k) : k \in keywords \cup types}
    \cup {<<"a">>, <<"T", "r", "u", "e">>, <<"m", "a", "p", "s">>,
          <<"i", "n", "t">>, <<"x", "_", "1">>}

WordInputs == {w \o t : w \in ScanWords, t \in {<<>>, <<";">>, <<"_">>, <<"1">>}}

ScanInputs ==
    Strings(NumRunes, MaxNumLen) \cup Strings(AnyRunes, MaxAnyLen) \cup WordInputs

\* The answers of the five predicates of package token.
Holds(kw, const, num, typ, keyTyp) ==
    [IsKeyword |-> kw, IsConstant |-> const, IsNumber |-> num,
     IsType |-> typ, IsKeyType |-> keyTyp]

\* No call of package token has been made.  A call is recorded with the
\* function called, the string or the kind it was given, and the kind or
\* the answers it returned.
NoCall == [fn |-> "none", text |-> <<>>, kind |-> "Illegal",
           is |-> Holds(FALSE, FALSE, FALSE, FALSE, FALSE)]

\* The parser's variables while no parse is running.
NotParsing ==
    /\ frags = <<>>
    /\ p = NewPeeker(<<>>)
    /\ pc = "idle"
    /\ next = NoToken
    /\ proto = <<>>
    /\ err = <<>>

InitScan ==
    /\ scn \in {New(src) : src \in ScanInputs}
    /\ toks = <<>>
    /\ NotParsing
    /\ call = NoCall

\* One call tok := s.Scan(), recorded with the reader position before and
\* after it.
ScanStep ==
    /\ Len(toks) < MaxScans
    /\ scn.panic = NoPanic
    /\ \E res \in {Scan(scn)} :
          /\ scn' = res.s
          /\ toks' = Append(toks, [tok |-> res.tok, from |-> scn.pos,
                                    to |-> res.s.pos])
    /\ UNCHANGED <<frags, p, pc, next, proto, err, call>>

NextScan == ScanStep

SpecScan == InitScan /\ [][NextScan]_vars

----------------------------------------------------------------------------
(* Parse on an input assembled from statements. *)

\* The text of a statement.
FragText(f) ==
    CASE f = "syntax_dq" ->   \* syntax = "proto3";
           <<"s", "y", "n", "t", "a", "x", " ", "=", " ", "\"", "p", "r",
             "o", "t", "o", "3", "\"", ";">>
      [] f = "syntax_sq" ->   \* syntax='proto3';
           <<"s", "y", "n", "t", "a", "x", "=", "'", "p", "r", "o", "t",
             "o", "3", "'", ";">>
      [] f = "syntax_proto2" ->   \* syntax = "proto2";
           <<"s", "y", "n", "t", "a", "x", " ", "=", " ", "\"", "p", "r",
             "o", "t", "o", "2", "\"", ";">>
      [] f = "nothing" ->   \* 
           <<>>
      [] f = "package" ->   \* package a;
           <<"p", "a", "c", "k", "a", "g", "e", " ", "a", ";">>
      [] f = "semicolon" ->   \* ;
           <<";">>
      [] f = "import" ->   \* import public "x";
           <<"i", "m", "p", "o", "r", "t", " ", "p", "u", "b", "l", "i",
             "c", " ", "\"", "x", "\"", ";">>
      [] f = "option" ->   \* option a = -1;
           <<"o", "p", "t", "i", "o", "n", " ", "a", " ", "=", " ", "-",
             "1", ";">>
      [] f = "message" ->   \* message M { repeated int32 a = 1; }
           <<"m", "e", "s", "s", "a", "g", "e", " ", "M", " ", "{", " ",
             "r", "e", "p", "e", "a", "t", "e", "d", " ", "i", "n", "t",
             "3", "2", " ", "a", " ", "=", " ", "1", ";", " ", "}">>
      [] f = "enum" ->   \* enum E { A = 0; }
           <<"e", "n", "u", "m", " ", "E", " ", "{", " ", "A", " ", "=",
             " ", "0", ";", " ", "}">>
      [] f = "service" ->   \* service S { rpc R (a) returns (stream b); }
           <<"s", "e", "r", "v", "i", "c", "e", " ", "S", " ", "{", " ",
             "r", "p", "c", " ", "R", " ", "(", "a", ")", " ", "r", "e",
             "t", "u", "r", "n", "s", " ", "(", "s", "t", "r", "e", "a",
             "m", " ", "b", ")", ";", " ", "}">>
      [] f = "syntax" ->   \* syntax = "proto3";
           <<"s", "y", "n", "t", "a", "x", " ", "=", " ", "\"", "p", "r",
             "o", "t", "o", "3", "\"", ";">>
      [] f = "junk" ->   \* a 
           <<"a", " ">>
      [] f = "comment" ->   \* // c\n
           <<"/", "/", " ", "c", "\n">>
      [] f = "nuls" ->   \* NULNUL
           <<eof, eof>>
      [] f = "bad_import" ->   \* import x;
           <<"i", "m", "p", "o", "r", "t", " ", "x", ";">>
      [] f = "comment_nul" ->   \* //NULa\n
           <<"/", "/", eof, "a", "\n">>

Headers == {"syntax_dq", "syntax_sq", "syntax_proto2", "nothing"}
Statements == {"package", "semicolon", "import", "option", "message", "enum",
               "service", "syntax", "junk", "comment", "nuls", "bad_import",
               "comment_nul"}

\* The inputs: a header and at most MaxStmts statements.
ParseInputs ==
    {<<h>> \o st : h \in Headers, st \in Strings(Statements, MaxStmts)}

\* The text of the statements of fs from the i-th on.
RECURSIVE SourceFrom(_, _)
SourceFrom(fs, i) ==
    IF i > Len(fs) THEN <<>>
    ELSE FragText(fs[i]) \o SourceFrom(fs, i + 1)

Source(fs) == SourceFrom(fs, 1)

\* The scanner's variables while only the parser runs.
NotScanning ==
    /\ scn = New(<<>>)
    /\ toks = <<>>

\* Parse(r): parseProto(&peeker{s: scanner.New(r)}) about to run.
Init ==
    /\ frags \in ParseInputs
    /\ p = NewPeeker(Source(frags))
    /\ pc = "start"
    /\ next = NoToken
    /\ proto = <<>>
    /\ err = <<>>
    /\ NotScanning
    /\ call = NoCall

\* The zero Proto with its Syntax set.
NewProto(syntax) ==
    [Syntax |-> syntax, Package |-> [Identifier |-> <<>>], Imports |-> <<>>,
     Options |-> <<>>, Messages |-> <<>>, Enums |-> <<>>, Services |-> <<>>]

\* The error made from err while it is still nil, not from rec.
Errorf_ofErr(rec) == << <<"%!v(<nil>)">> >>

\* fmt.Errorf("%v", rec): a non-nil error whose message is the panic's.
Errorf(rec) == <<rec>>

\* What follows a statement of parseProto that left the peeker pk and, had
\* it not panicked, the result value: the deferred function recovers a panic
\* into err and parseProto returns; otherwise the value is assigned to proto
\* and the loop goes on.
Continue(pk, value) ==
    /\ p' = pk
    /\ IF pk.panic # NoPanic
       THEN /\ err' = Errorf(pk.panic)
            /\ pc' = "done"
            /\ UNCHANGED proto
       ELSE /\ proto' = <<value>>
            /\ pc' = "top"
            /\ UNCHANGED err

\* proto = &Proto{Syntax: parseSyntax(p)}
ParseStart ==
    /\ pc = "start"
    /\ \E r \in {parseSyntax(p)} : Continue(r.p, NewProto(r.v))
    /\ UNCHANGED <<scn, toks, frags, next, call>>

\* switch next := p.peek(); next.Kind {
TopPeek ==
    /\ pc = "top"
    /\ \E pk \in {peeker_peek(p)} :
          /\ p' = pk.p
          /\ next' = pk.tok
          /\ IF pk.p.panic # NoPanic
             THEN err' = Errorf(pk.p.panic) /\ pc' = "done"
             ELSE pc' = "switch" /\ UNCHANGED err
    /\ UNCHANGED <<scn, toks, frags, proto, call>>

TopPackage ==
    /\ pc = "switch"
    /\ next.Kind = "Package"
    /\ \E r \in {parsePackage(IF Len(proto[1].Package.Identifier) > 0
                             THEN panicf(p, <<"found second package definition">>)
                             ELSE p)} :
          Continue(r.p, [proto[1] EXCEPT !.Package = r.v])
    /\ UNCHANGED <<scn, toks, frags, next, call>>

TopImport ==
    /\ pc = "switch"
    /\ next.Kind = "Import"
    /\ \E r \in {parseImport(p)} :
          Continue(r.p, [proto[1] EXCEPT !.Imports = Append(@, r.v)])
    /\ UNCHANGED <<scn, toks, frags, next, call>>

TopOption ==
    /\ pc = "switch"
    /\ next.Kind = "Option"
    /\ \E r \in {parseOption(p)} :
          Continue(r.p, [proto[1] EXCEPT !.Options = Append(@, r.v)])
    /\ UNCHANGED <<scn, toks, frags, next, call>>

TopMessage ==
    /\ pc = "switch"
    /\ next.Kind = "Message"
    /\ \E r \in {parseMessage(p)} :
          Continue(r.p, [proto[1] EXCEPT !.Messages = Append(@, r.v)])
    /\ UNCHANGED <<scn, toks, frags, next, call>>

TopEnum ==
    /\ pc = "switch"
    /\ next.Kind = "Enum"
    /\ \E r \in {parseEnum(p)} :
          Continue(r.p, [proto[1] EXCEPT !.Enums = Append(@, r.v)])
    /\ UNCHANGED <<scn, toks, frags, next, call>>

TopService ==
    /\ pc = "switch"
    /\ next.Kind = "Service"
    /\ \E r \in {parseService(p)} :
          Continue(r.p, [proto[1] EXCEPT !.Services = Append(@, r.v)])
    /\ UNCHANGED <<scn, toks, frags, next, call>>

\* case token.Semicolon, token.Comment: continue
TopSemicolon ==
    /\ pc = "switch"
    /\ next.Kind \in {"Semicolon", "Comment"}
    /\ pc' = "top"
    /\ UNCHANGED <<scn, toks, frags, p, next, proto, err, call>>

\* case token.EOF: return proto, nil
TopEOF ==
    /\ pc = "switch"
    /\ next.Kind = "EOF"
    /\ pc' = "done"
    /\ UNCHANGED <<scn, toks, frags, p, next, proto, err, call>>

\* default: panicf("unexpected %s at top level definition", next)
TopDefault ==
    /\ pc = "switch"
    /\ next.Kind \notin {"Package", "Import", "Option", "Message", "Enum",
                         "Service", "Semicolon", "Comment", "EOF"}
    /\ Continue(panicf(p, <<"unexpected %s at top level definition", next>>),
                proto[1])
    /\ UNCHANGED <<scn, toks, frags, next, call>>

Next ==
    \/ ParseStart
    \/ TopPeek
    \/ TopPackage
    \/ TopImport
    \/ TopOption
    \/ TopMessage
    \/ TopEnum
    \/ TopService
    \/ TopSemicolon
    \/ TopEOF
    \/ TopDefault

Spec == Init /\ [][Next]_vars

----------------------------------------------------------------------------
(* Package token on its own: a caller of its constructors and predicates. *)

\* The strings the constructors are called with: the lower-case String() of
\* every kind that from() visits, the keys of the punctuation map, and
\* strings that are none of these.
TokenTexts ==
    {LowerName(k) : k \in keywords \cup types}
    \cup {<<r>> : r \in PunctuationRunes}
    \cup { <<>>, <<"a">>, <<"E","n","u","m">>, <<"T","R","U","E">>,
           <<"e","n","u","m"," ">>, <<"i","n","t">>, <<"i","n","t","1","6">>,
           <<"S","t","r","i","n","g">>, <<"#">>, <<"/">>, <<".",".">>,
           <<"=","=">>, <<"'",";","'">>, <<" ">>, <<eof>> }

InitToken ==
    /\ call = NoCall
    /\ NotScanning
    /\ NotParsing

CallKeyword ==
    /\ \E s \in TokenTexts :
          call' = [NoCall EXCEPT !.fn = "Keyword", !.text = s, !.kind = Keyword(s)]
    /\ UNCHANGED <<scn, toks, frags, p, pc, next, proto, err>>

CallType ==
    /\ \E s \in TokenTexts :
          call' = [NoCall EXCEPT !.fn = "Type", !.text = s, !.kind = Type(s)]
    /\ UNCHANGED <<scn, toks, frags, p, pc, next, proto, err>>

CallPunctuation ==
    /\ \E s \in TokenTexts :
          call' = [NoCall EXCEPT !.fn = "Punctuation", !.text = s,
                                !.kind = Punctuation(s)]
    /\ UNCHANGED <<scn, toks, frags, p, pc, next, proto, err>>

\* The five predicates called with one kind.
CallPredicates ==
    /\ \E k \in Kinds :
          call' = [NoCall EXCEPT !.fn = "Is", !.kind = k,
                                !.is = Holds(IsKeyword(k), IsConstant(k),
                                             IsNumber(k), IsType(k), IsKeyType(k))]
    /\ UNCHANGED <<scn, toks, frags, p, pc, next, proto, err>>

NextToken ==
    \/ CallKeyword
    \/ CallType
    \/ CallPunctuation
    \/ CallPredicates

SpecToken == InitToken /\ [][NextToken]_vars


----------------------------------------------------------------------------
(* Reading the input as the claims do, without the scanner. *)

\* The rune at index i of src, "END" where the input has no rune.
At(src, i) == IF i >= 1 /\ i <= Len(src) THEN src[i] ELSE "END"

\* The index of the last rune of the longest run of runes of rs that
\* starts at index i (i - 1 when the run is empty).
RECURSIVE RunEnd(_, _, _)
RunEnd(src, i, rs) == IF At(src, i) \in rs THEN RunEnd(src, i + 1, rs) ELSE i - 1

Blank == {" ", "\n", "\t"}
Dec == {"0","1","2","3","4","5","6","7","8","9"}
Oct == {"0","1","2","3","4","5","6","7"}
HexDigits == Dec \cup {"a","b","c","d","e","f","A","B","C","D","E","F"}
Letter == LowerLetters \cup UpperLetters
Punct == {".","=","-","+",",",";","(",")","{","}","[","]","<",">"}
NumberKinds == {"DecimalLiteral", "FloatLiteral", "HexLiteral", "OctalLiteral"}

\* The number of runes before the token that a Scan from position at meets.
TokStart(src, at) == RunEnd(src, at + 1, Blank)

\* The runes that start no class of token.
NoClass == Runes \ (Letter \cup Dec \cup Blank \cup Punct \cup {"'", "\"", "/"})

\* A digit run at index i that number() scans as a decimal or float literal.
DecimalLed(src, i) ==
    /\ At(src, i) \in Dec
    /\ ~(At(src, i) = "0" /\ At(src, i + 1) \in Dec \cup {"x", "X"})

\* The index of the last rune of the integer part and fraction at index i.
MantissaEnd(src, i) ==
    LET d == RunEnd(src, i, Dec)
    IN IF At(src, d + 1) = "." THEN RunEnd(src, d + 2, Dec) ELSE d

\* The kind and the last index of the number at index i.  An exponent marker
\* without a sign makes the run, the marker and the rune after it Illegal.
ClaimNumber(src, i) ==
    LET o == RunEnd(src, i + 1, Oct)
        h == RunEnd(src, i + 2, HexDigits)
        d == RunEnd(src, i, Dec)
        f == MantissaEnd(src, i)
        marker == At(src, f + 1) \in {"e", "E"}
        signed == At(src, f + 2) \in {"+", "-"}
    IN IF At(src, i) = "0" /\ At(src, i + 1) \in Dec
       THEN IF At(src, o + 1) \in {"8", "9"}
            THEN [Kind |-> "Illegal", last |-> o + 1]
            ELSE [Kind |-> "OctalLiteral", last |-> o]
       ELSE IF At(src, i) = "0" /\ At(src, i + 1) \in {"x", "X"}
       THEN IF h >= i + 2
            THEN [Kind |-> "HexLiteral", last |-> h]
            ELSE [Kind |-> "Illegal", last |-> i + 1]
       ELSE IF marker /\ signed
       THEN [Kind |-> "FloatLiteral", last |-> RunEnd(src, f + 3, Dec)]
       ELSE IF marker
       THEN [Kind |-> "Illegal", last |-> f + 2]
       ELSE IF f > d
       THEN [Kind |-> "FloatLiteral", last |-> f]
       ELSE [Kind |-> "DecimalLiteral", last |-> d]

\* The runes of src from index i to index j, with the eof sentinel for an
\* index past the end of the input.
Slice(src, i, j) == [k \in 1..(j - i + 1) |->
                       IF i + k - 1 <= Len(src) THEN src[i + k - 1] ELSE eof]

\* The Scan calls that met a digit.
NumberScans ==
    {i \in 1..Len(toks) : At(scn.src, TokStart(scn.src, toks[i].from) + 1) \in Dec}

----------------------------------------------------------------------------
(* Claims about the scanner *)

\* C7 (as claimed): Scan never panics, and a rune that starts no class of
\* token comes back as an Illegal token holding exactly that rune, with the
\* reader left right behind it.
C7_ScanTotal ==
    /\ scn.panic = NoPanic
    /\ \A i \in 1..Len(toks) :
          LET st == TokStart(scn.src, toks[i].from)
              c == At(scn.src, st + 1)
          IN c \in NoClass =>
                /\ toks[i].tok = [Kind |-> "Illegal", Text |-> <<c>>]
                /\ toks[i].to = st + 1

\* C8 (as claimed): a digit-led run is Octal, Illegal (malformed octal), Hex,
\* Illegal (bare 0x), Float (fraction or signed exponent), Illegal (exponent
\* marker without a sign) and Decimal otherwise, and the text is the matched
\* part of the source.
C8_NumberClasses ==
    \A i \in NumberScans :
        LET st == TokStart(scn.src, toks[i].from)
            cn == ClaimNumber(scn.src, st + 1)
        IN /\ toks[i].tok.Kind = cn.Kind
           /\ toks[i].tok.Text = Slice(scn.src, st + 1, cn.last)

\* The Scan calls that met a decimal-led run, an exponent marker and a rune
\* that is no sign.
BadExponentScans ==
    {i \in NumberScans :
        LET st == TokStart(scn.src, toks[i].from)
            f == MantissaEnd(scn.src, st + 1)
        IN /\ DecimalLed(scn.src, st + 1)
           /\ At(scn.src, f + 1) \in {"e", "E"}
           /\ At(scn.src, f + 2) \notin {"+", "-", "END"}}

\* C9: when the rune after an exponent marker is no sign, Scan returns an
\* Illegal token whose text runs from the first digit to that rune, and the
\* reader is left right behind that rune.
C9_BadExponent ==
    \A i \in BadExponentScans :
        LET st == TokStart(scn.src, toks[i].from)
            f == MantissaEnd(scn.src, st + 1)
        IN /\ toks[i].tok.Kind = "Illegal"
           /\ toks[i].tok.Text = SubSeq(scn.src, st + 1, f + 2)
           /\ toks[i].to = f + 2

\* C9 witness: "1e." was scanned, and the next Scan returned what follows it.
C9_Witness ==
    /\ Len(toks) >= 2
    /\ 1 \in BadExponentScans
    /\ toks[1].tok = [Kind |-> "Illegal", Text |-> <<"1", "e", ".">>]
    /\ toks[2].from = 3
    /\ toks[2].tok.Kind = "DecimalLiteral"

\* C10 (as claimed): after a numeric literal the reader is left right behind
\* the literal, so the rune that follows it is not lost, and when that rune
\* is a punctuation mark the next Scan returns it.
C10_NextRuneUnread ==
    \A i \in NumberScans :
        LET st == TokStart(scn.src, toks[i].from)
            end == st + Len(toks[i].tok.Text)
        IN toks[i].tok.Kind \in NumberKinds =>
              /\ toks[i].to = end
              /\ (At(scn.src, end + 1) \in Punct /\ i < Len(toks)) =>
                     toks[i + 1].tok =
                        [Kind |-> Punctuation(<<At(scn.src, end + 1)>>),
                         Text |-> <<>>]

----------------------------------------------------------------------------
(* Claims about Parse *)

\* How many of the statements of the input are f.
Count(f) == Cardinality({i \in 2..Len(frags) : frags[i] = f})

\* The input is a file of the grammar, but for the number of its package
\* statements: a syntax statement, then well-formed statements, empty
\* statements and comments.
WellFormedStatements ==
    /\ Len(frags) >= 1
    /\ frags[1] \in {"syntax_dq", "syntax_sq"}
    /\ \A i \in 2..Len(frags) :
          frags[i] \in {"package", "semicolon", "import", "option", "message",
                        "enum", "service", "comment"}

\* The input conforms to the File grammar.
GrammarConforming == WellFormedStatements /\ Count("package") <= 1

\* C1 (as claimed): on an input of the File grammar every iteration of the
\* top-level loop that goes round again has consumed at least one token.
C1_LoopConsumes ==
    [][(GrammarConforming /\ pc = "switch" /\ pc' = "top") => p'.n > p.n]_vars

\* C2 (as claimed): the iteration of the top-level loop that meets ';'
\* consumes it, so that the lookahead is empty and the next token read is
\* the one after the ';'.
C2_EmptyStatementConsumed ==
    [][(pc = "switch" /\ next.Kind = "Semicolon") =>
          (p'.n = p.n + 1 /\ p'.peeked = <<>>)]_vars

\* C3: a panic raised anywhere under parseProto, the scanner's included,
\* ends the parse at once and comes back as the one error, with the panic's
\* message; there is an error only when there was a panic.
C3_PanicsRecovered ==
    /\ (p.panic # NoPanic) => (pc = "done" /\ err = <<p.panic>>)
    /\ (err # <<>>) => (pc = "done" /\ p.panic # NoPanic)

\* C3 witness: consume panicked inside parseImport, two tokens into the
\* statement, and Parse returned that panic as its error.
C3_Witness ==
    /\ pc = "done"
    /\ frags = <<"syntax_dq", "bad_import">>
    /\ p.n = 6
    /\ err = << <<"expected %v, got %s", <<"StringLiteral">>,
                  [Kind |-> "Identifier", Text |-> <<"x">>]>> >>

\* C4 (as claimed): Parse never returns an error together with a Proto.
C4_NoProtoWithError == (err # <<>>) => (proto = <<>>)

\* The statements of the input in order: what is left of its fragments
\* without the empty header and the comments.
StatementsOf(fs) == SelectSeq(fs, LAMBDA f : f \notin {"nothing", "comment"})

IsSyntaxStatement(f) == f \in {"syntax_dq", "syntax_sq", "syntax_proto2", "syntax"}

\* C5 (as claimed): Parse succeeds only on an input whose first statement is
\* the proto3 syntax statement and that has no second syntax statement.
C5_SyntaxFirstAndOnce ==
    (pc = "done" /\ err = <<>>) =>
        LET st == StatementsOf(frags) IN
        /\ Len(st) >= 1
        /\ st[1] \in {"syntax_dq", "syntax_sq", "syntax"}
        /\ \A i \in 2..Len(st) : ~IsSyntaxStatement(st[i])

SecondPackageError == << <<"found second package definition">> >>

\* C6 (as claimed): a file with at most one package statement does not fail
\* over its package; a file with two or more gets to its second package
\* statement (every turn of the top-level loop on it returns or consumes a
\* token) and when Parse returns on it the error is "found second package
\* definition".
C6_SecondPackageFails ==
    /\ [](Count("package") <= 1 => err # SecondPackageError)
    /\ []((WellFormedStatements /\ Count("package") >= 2 /\ pc = "done")
             => err = SecondPackageError)
    /\ [][(WellFormedStatements /\ Count("package") >= 2 /\ pc = "switch")
             => (pc' = "done" \/ p'.n > p.n)]_vars

----------------------------------------------------------------------------
(* Claims about strings and comments *)

\* The index of the first occurrence after index i of the rune at index i
\* that has no backslash right before it; 0 when there is none.
ClosingQuote(src, i) ==
    LET ends == {j \in (i + 1)..Len(src) :
                    src[j] = src[i] /\ src[j - 1] # backslash}
    IN IF ends = {} THEN 0 ELSE CHOOSE j \in ends : \A k \in ends : j <= k

\* The Scan calls that met a quote whose string is closed in the input.
ClosedStringScans ==
    {i \in 1..Len(toks) :
        LET st == TokStart(scn.src, toks[i].from)
        IN /\ At(scn.src, st + 1) \in {quote, doubleQuote}
           /\ ClosingQuote(scn.src, st + 1) # 0}

\* C11 (as claimed): a string that starts at a quote ends at the first later
\* occurrence of that quote with no backslash right before it; the token is
\* a StringLiteral whose text is the source from quote to quote, backslashes
\* included, and the reader is left right behind the closing quote.
C11_StringEnds ==
    \A i \in ClosedStringScans :
        LET st == TokStart(scn.src, toks[i].from)
            e == ClosingQuote(scn.src, st + 1)
        IN /\ toks[i].tok.Kind = "StringLiteral"
           /\ toks[i].tok.Text = SubSeq(scn.src, st + 1, e)
           /\ toks[i].to = e

\* The index of the first line break of src at index i or later, one past
\* the end of src when there is none.
RECURSIVE LineEnd(_, _)
LineEnd(src, i) ==
    IF i > Len(src) \/ src[i] = lineBreak THEN i ELSE LineEnd(src, i + 1)

\* The Scan calls that met a '/'.
SlashScans ==
    {i \in 1..Len(toks) : At(scn.src, TokStart(scn.src, toks[i].from) + 1) = "/"}

\* C12 (as claimed): on '/', when the next rune is '/' too the token is a
\* Comment whose text runs from the "//" up to the next line break or the end
\* of the input, and the reader is left in front of the line break; otherwise
\* the token is Illegal, its text is the '/' and the rune after it, and the
\* reader is left right behind the two.
C12_Comment ==
    \A i \in SlashScans :
        LET st == TokStart(scn.src, toks[i].from)
            nl == LineEnd(scn.src, st + 3)
        IN IF At(scn.src, st + 2) = "/"
           THEN /\ toks[i].tok = [Kind |-> "Comment",
                                  Text |-> SubSeq(scn.src, st + 1, nl - 1)]
                /\ toks[i].to = nl - 1
           ELSE /\ toks[i].tok = [Kind |-> "Illegal",
                                  Text |-> Slice(scn.src, st + 1, st + 2)]
                /\ toks[i].to = IF st + 2 <= Len(scn.src) THEN st + 2 ELSE st + 1

----------------------------------------------------------------------------
(* Parse as a function of its input: what parseProto returns, when it does *)

\* parseProto returning proto and err; returns is FALSE for the call that
\* never returns.
Returned(pk, pr, e) == [returns |-> TRUE, p |-> pk, proto |-> pr, err |-> e]
NeverReturns(pk) == [returns |-> FALSE, p |-> pk, proto |-> <<>>, err |-> <<>>]

\* The loop of parseProto putting each Message before those it has.
RECURSIVE parseProtoLoop_prepend(_, _)
parseProtoLoop_prepend(pk, pr) ==
    Only([nx \in {peeker_peek(pk)} |->
    Only([kind \in {nx.tok.Kind} |->
    Only([r \in {IF kind = "Package"
                 THEN Only([s \in {parsePackage(
                                      IF Len(pr.Package.Identifier) > 0
                                      THEN panicf(nx.p, <<"found second package definition">>)
                                      ELSE nx.p)} |->
                        [p |-> s.p, v |-> [pr EXCEPT !.Package = s.v]]])
                 ELSE IF kind = "Import"
                 THEN Only([s \in {parseImport(nx.p)} |->
                        [p |-> s.p, v |-> [pr EXCEPT !.Imports = Append(@, s.v)]]])
                 ELSE IF kind = "Option"
                 THEN Only([s \in {parseOption(nx.p)} |->
                        [p |-> s.p, v |-> [pr EXCEPT !.Options = Append(@, s.v)]]])
                 ELSE IF kind = "Message"
                 THEN Only([s \in {parseMessage(nx.p)} |->
                        [p |-> s.p, v |-> [pr EXCEPT !.Messages = <<s.v>> \o @]]])
                 ELSE IF kind = "Enum"
                 THEN Only([s \in {parseEnum(nx.p)} |->
                        [p |-> s.p, v |-> [pr EXCEPT !.Enums = Append(@, s.v)]]])
                 ELSE IF kind = "Service"
                 THEN Only([s \in {parseService(nx.p)} |->
                        [p |-> s.p, v |-> [pr EXCEPT !.Services = Append(@, s.v)]]])
                 ELSE IF kind \in {"Semicolon", "Comment", "EOF"}
                 THEN [p |-> nx.p, v |-> pr]
                 ELSE [p |-> panicf(nx.p, <<"unexpected %s at top level definition",
                                            nx.tok>>),
                       v |-> pr]} |->
      IF r.p.panic # NoPanic THEN Returned(r.p, <<pr>>, Errorf(r.p.panic))
      ELSE IF kind \in {"Semicolon", "Comment"} THEN NeverReturns(r.p)
      ELSE IF kind = "EOF" THEN Returned(r.p, <<pr>>, <<>>)
      ELSE parseProtoLoop_prepend(r.p, r.v)])])])

\* The for loop of parseProto with *proto = pr.  A statement that panicked
\* leaves proto as it was and the deferred function sets err.  On ';' the
\* loop goes round with the ';' still peeked, and so it does for ever.
RECURSIVE parseProtoLoop(_, _)
parseProtoLoop(pk, pr) ==
    Only([nx \in {peeker_peek(pk)} |->
    Only([kind \in {nx.tok.Kind} |->
    Only([r \in {IF kind = "Package"
                 THEN Only([s \in {parsePackage(
                                      IF Len(pr.Package.Identifier) > 0
                                      THEN panicf(nx.p, <<"found second package definition">>)
                                      ELSE nx.p)} |->
                        [p |-> s.p, v |-> [pr EXCEPT !.Package = s.v]]])
                 ELSE IF kind = "Import"
                 THEN Only([s \in {parseImport(nx.p)} |->
                        [p |-> s.p, v |-> [pr EXCEPT !.Imports = Append(@, s.v)]]])
                 ELSE IF kind = "Option"
                 THEN Only([s \in {parseOption(nx.p)} |->
                        [p |-> s.p, v |-> [pr EXCEPT !.Options = Append(@, s.v)]]])
                 ELSE IF kind = "Message"
                 THEN Only([s \in {parseMessage(nx.p)} |->
                        [p |-> s.p, v |-> [pr EXCEPT !.Messages = Append(@, s.v)]]])
                 ELSE IF kind = "Enum"
                 THEN Only([s \in {parseEnum(nx.p)} |->
                        [p |-> s.p, v |-> [pr EXCEPT !.Enums = Append(@, s.v)]]])
                 ELSE IF kind = "Service"
                 THEN Only([s \in {parseService(nx.p)} |->
                        [p |-> s.p, v |-> [pr EXCEPT !.Services = Append(@, s.v)]]])
                 ELSE IF kind \in {"Semicolon", "Comment", "EOF"}
                 THEN [p |-> nx.p, v |-> pr]
                 ELSE [p |-> panicf(nx.p, <<"unexpected %s at top level definition",
                                            nx.tok>>),
                       v |-> pr]} |->
      IF r.p.panic # NoPanic THEN Returned(r.p, <<pr>>, Errorf(r.p.panic))
      ELSE IF kind \in {"Semicolon", "Comment"} THEN NeverReturns(r.p)
      ELSE IF kind = "EOF" THEN Returned(r.p, <<pr>>, <<>>)
      ELSE parseProtoLoop(r.p, r.v)])])])

parseProto(pk) ==
    Only([r \in {parseSyntax(pk)} |->
      IF r.p.panic # NoPanic THEN Returned(r.p, <<>>, Errorf(r.p.panic))
      ELSE parseProtoLoop(r.p, NewProto(r.v))])

Parse(src) == parseProto(NewPeeker(src))

----------------------------------------------------------------------------
(* Claims about the peeker *)

\* The statements that are line comments.
CommentFrags == {"comment", "comment_nul"}

\* The input without its line comments.
WithoutComments(fs) == SelectSeq(fs, LAMBDA f : f \notin CommentFrags)

\* C13 (as claimed): peek and scan never hand out a Comment token, and what
\* Parse does on an input with line comments between its statements is what
\* it does on the input without them: it returns the same Proto and the same
\* error, and it fails to return only where it does so without them.
C13_CommentsSkipped ==
    /\ next.Kind # "Comment"
    /\ peeker_peek(p).tok.Kind # "Comment"
    /\ peeker_scan(p).tok.Kind # "Comment"
    /\ (pc = "done" \/ (pc = "switch" /\ next.Kind = "Semicolon")) =>
          LET o == Parse(Source(WithoutComments(frags)))
          IN IF pc = "done"
             THEN o.returns /\ o.proto = proto /\ o.err = err
             ELSE ~o.returns

\* The tokens the scanner returns that are no comments, in order; after the
\* last of them the scanner returns that one again.
Stream ==
    SelectSeq([i \in 1..Len(p.scans) |-> p.scans[i].tok],
              LAMBDA t : t.Kind # "Comment")
StreamAt(i) == Stream[IF i < Len(Stream) THEN i ELSE Len(Stream)]

\* The lists of kinds the productions call maybeConsume with.
MaybeKinds ==
    { <<"Weak", "Public">>, <<"OpenParen">>, <<"OpenBracket">>,
      <<"CloseBracket">>, <<"Repeated">>, <<"CloseBrace">>,
      <<"DecimalLiteral", "StringLiteral">>, <<"To">>, <<"Semicolon">>,
      <<"Stream">> }

\* C14: the lookahead holds at most one token, the one after those handed
\* out so far.  peek returns it and keeps it, however often it is called;
\* scan returns it, empties the lookahead and the scan after that returns the
\* token that follows; maybeConsume returns it, and takes it exactly when its
\* kind is listed: otherwise the next scan returns it again.
C14_Lookahead ==
    p.panic = NoPanic =>
      /\ Len(p.peeked) <= 1
      /\ p.peeked # <<>> => p.peeked[1] = StreamAt(p.n + 1)
      /\ LET a == peeker_peek(p)
             b == peeker_peek(a.p)
             c == peeker_scan(a.p)
             d == peeker_scan(p)
         IN /\ a.tok = StreamAt(p.n + 1)
            /\ a.p.peeked = <<a.tok>> /\ a.p.n = p.n
            /\ b = a
            /\ c.tok = a.tok
            /\ c.p.peeked = <<>> /\ c.p.n = p.n + 1 /\ c.p.k = a.p.k
            /\ d = c
            /\ peeker_scan(c.p).tok = StreamAt(p.n + 2)
      /\ \A kinds \in MaybeKinds :
            LET m == maybeConsume(p, kinds)
            IN /\ m.tok = StreamAt(p.n + 1)
               /\ m.ok = OneOfKinds(m.tok.Kind, kinds)
               /\ IF m.ok
                  THEN /\ m.p.n = p.n + 1 /\ m.p.peeked = <<>>
                       /\ peeker_scan(m.p).tok = StreamAt(p.n + 2)
                  ELSE /\ m.p.n = p.n
                       /\ peeker_scan(m.p).tok = m.tok

\* C14 witness: after the syntax statement the top-level loop has peeked at
\* "import"; maybeConsume leaves it for one list of kinds and takes it for
\* another, and after it comes "public".
C14_Witness ==
    /\ pc = "switch"
    /\ p.n = 4
    /\ p.peeked = <<[Kind |-> "Import", Text |-> <<>>]>>
    /\ ~maybeConsume(p, <<"Weak", "Public">>).ok
    /\ peeker_scan(maybeConsume(p, <<"Weak", "Public">>).p).tok.Kind = "Import"
    /\ peeker_scan(peeker_scan(p).p).tok.Kind = "Public"

----------------------------------------------------------------------------
(* Claims about package token *)

\* The kinds of the keywords, true and false included, of the predefined
\* types and of the key types.
KeywordKinds ==
    {"False", "True", "Enum", "Import", "Map", "Message", "Oneof", "Option",
     "Package", "Public", "Repeated", "Reserved", "Returns", "RPC", "Service",
     "Stream", "Syntax", "To", "Weak"}
KeyTypeKinds ==
    {"Bool", "Fixed32", "Fixed64", "Int32", "Int64", "Sfixed32", "Sfixed64",
     "Sint32", "Sint64", "String", "Uint32", "Uint64"}
TypeKinds == {"Bytes", "Double", "Float"} \cup KeyTypeKinds
ConstantKinds == NumberKinds \cup {"StringLiteral", "True", "False"}
PunctuationKinds ==
    {"Dot", "Equals", "Minus", "Plus", "Comma", "Semicolon", "OpenParen",
     "CloseParen", "OpenBrace", "CloseBrace", "OpenBracket", "CloseBracket",
     "OpenAngled", "CloseAngled"}

\* The lower-case spellings of a set of kinds.
Spellings(ks) == {LowerName(k) : k \in ks}

\* C15 (as claimed): Keyword(s) is other than Illegal exactly when s is the
\* lower-case spelling of a keyword, true and false included, and then the
\* kind is a keyword and prints as s; Type(s) likewise for the predefined
\* type names; Punctuation(s) is other than Illegal exactly for the 14
\* punctuation characters.
C15_Constructors ==
    /\ call.fn = "Keyword" =>
          /\ (call.kind # "Illegal") <=> (call.text \in Spellings(KeywordKinds))
          /\ (call.kind # "Illegal") =>
                (IsKeyword(call.kind) /\ LowerName(call.kind) = call.text)
    /\ call.fn = "Type" =>
          /\ (call.kind # "Illegal") <=> (call.text \in Spellings(TypeKinds))
          /\ (call.kind # "Illegal") =>
                (IsType(call.kind) /\ LowerName(call.kind) = call.text)
    /\ call.fn = "Punctuation" =>
          /\ (call.kind # "Illegal") <=> (call.text \in {<<r>> : r \in Punct})
          /\ (call.kind # "Illegal") => (call.kind \in PunctuationKinds)

\* The kinds of the table of TestIsKeyword: every kind a token can have
\* but Illegal.
TableKinds ==
    {"EOF", "Comment", "Identifier"} \cup ConstantKinds \cup KeywordKinds
    \cup TypeKinds \cup PunctuationKinds

----------------------------------------------------------------------------
(* Parse on a file that holds one message.  The text is made of words, put  *)
(* together with one space after each; an item of the message body is     *)
(* recorded with its words and with what it was made from.                *)

RECURSIVE JoinWords(_)
JoinWords(ws) ==
    IF ws = <<>> THEN <<>> ELSE (ws[1] \o <<" ">>) \o JoinWords(Tail(ws))

\* An item: is tells its production, key the key type of a map, reps which
\* of its fields start with "repeated", elems the elements of a reserved
\* statement.
Item(is, words, key, reps, elems) ==
    [is |-> is, words |-> words, key |-> key, reps |-> reps, elems |-> elems]

\* The names of the fields of an item, by position.
FieldNames == << <<"a">>, <<"b">>, <<"c">>, <<"d">> >>

Int32Word == LowerName("Int32")
FooWord == <<"F", "o", "o">>
DottedWord == <<"f", "o", "o", ".", "B", "a", "r">>

\* [ "repeated" ] typ name = 1 ;
FieldWords(repeated, typ, name) ==
    (IF repeated THEN <<LowerName("Repeated")>> ELSE <<>>)
    \o <<typ, name, <<"=">>, <<"1">>, <<";">>>>

FieldItems ==
    {Item("field", FieldWords(r, t, FieldNames[1]), <<>>, <<r>>, <<>>) :
        r \in BOOLEAN, t \in {Int32Word, FooWord, DottedWord}}

\* The fields of a oneof: each with or without "repeated", of a predefined
\* or of a user-defined type.
OneOfFieldSpecs == [repeated : BOOLEAN, typ : {Int32Word, FooWord}]

RECURSIVE OneOfFieldWords(_, _)
OneOfFieldWords(fs, i) ==
    IF i > Len(fs) THEN <<>>
    ELSE FieldWords(fs[i].repeated, fs[i].typ, FieldNames[i])
         \o OneOfFieldWords(fs, i + 1)

\* oneof o { fields }
OneOfItems ==
    {Item("oneof",
          (<<LowerName("Oneof"), <<"o">>, <<"{">>>> \o OneOfFieldWords(fs, 1))
             \o << <<"}">> >>,
          <<>>, [i \in 1..Len(fs) |-> fs[i].repeated], <<>>) :
        fs \in UNION {[1..k -> OneOfFieldSpecs] : k \in 0..MaxFields}}

\* The words tried as the key type of a map: every predefined type name, and
\* words that scan as an identifier, a literal, a keyword, a punctuation
\* mark and an illegal token.
KeyWords ==
    {LowerName(k) : k \in types \ {"first_key_type"}}
    \cup {<<"K">>, DottedWord, <<"1">>, <<"\"", "s", "\"">>,
          LowerName("Message"), LowerName("Map"), <<",">>, <<">">>, <<"#">>}

ValueWords == {Int32Word, LowerName("Bytes"), FooWord, DottedWord}

\* map < key , value > m = 1 ;
MapItems ==
    {Item("map",
          <<LowerName("Map"), <<"<">>, k, <<",">>, v, <<">">>, <<"m">>,
            <<"=">>, <<"1">>, <<";">>>>,
          k, <<>>, <<>>) :
        k \in KeyWords, v \in ValueWords}

\* The elements of a reserved statement: a field number, a field name, a
\* range of numbers and a range written with names.
ElemWords(e) ==
    CASE e = "id" -> << <<"1">> >>
      [] e = "name" -> << <<"\"", "a", "\"">> >>
      [] e = "range" -> << <<"2">>, LowerName("To"), <<"3">> >>
      [] e = "name_range" ->
           << <<"\"", "a", "\"">>, LowerName("To"), <<"\"", "b", "\"">> >>

RECURSIVE ElemsWords(_, _)
ElemsWords(es, i) ==
    IF i > Len(es) THEN <<>>
    ELSE (ElemWords(es[i]) \o (IF i < Len(es) THEN << <<",">> >> ELSE << <<";">> >>))
         \o ElemsWords(es, i + 1)

\* reserved elements ;
ReservedItems ==
    {Item("reserved", <<LowerName("Reserved")>> \o ElemsWords(es, 1),
          <<>>, <<>>, es) :
        es \in UNION {[1..k -> {"id", "name", "range", "name_range"}] :
                        k \in 1..MaxElems}}

\* The items that come before the last one: an empty statement and a field.
PlainItems ==
    {Item("empty", << <<";">> >>, <<>>, <<>>, <<>>),
     Item("field", <<Int32Word, <<"y">>, <<"=">>, <<"2">>, <<";">>>>,
          <<>>, <<FALSE>>, <<>>)}

\* The message bodies: at most MaxItems plain items and then one item of any
\* production.
MsgInputs ==
    {pre \o <<it>> :
        pre \in Strings(PlainItems, MaxItems),
        it \in FieldItems \cup OneOfItems \cup MapItems \cup ReservedItems}

RECURSIVE ItemsWords(_, _)
ItemsWords(fs, i) ==
    IF i > Len(fs) THEN <<>> ELSE fs[i].words \o ItemsWords(fs, i + 1)

\* syntax = "proto3";message M { items }
MsgSource(fs) ==
    FragText("syntax_dq")
    \o JoinWords((<<LowerName("Message"), <<"M">>, <<"{">>>> \o ItemsWords(fs, 1))
                 \o << <<"}">> >>)

InitMsg ==
    /\ frags \in MsgInputs
    /\ p = NewPeeker(MsgSource(frags))
    /\ pc = "start"
    /\ next = NoToken
    /\ proto = <<>>
    /\ err = <<>>
    /\ NotScanning
    /\ call = NoCall

\* proto, err := Parse(r), from the call to its return.
ParseCall ==
    /\ pc = "start"
    /\ \E o \in {parseProto(p)} :
          /\ o.returns
          /\ p' = o.p
          /\ proto' = o.proto
          /\ err' = o.err
    /\ pc' = "done"
    /\ UNCHANGED <<scn, toks, frags, next, call>>

NextMsg == ParseCall

SpecMsg == InitMsg /\ [][NextMsg]_vars

----------------------------------------------------------------------------
(* Claims about the message body *)

\* The item of the message body that comes last.
TestItem == frags[Len(frags)]

\* The panic messages that end with the token that was found.
TokenFormats ==
    {"expected %v, got %s", "expected field type, got %s",
     "expected key type, got %s", "expected decimal literal or string, got %s",
     "expected '}' to end message definition, got %s",
     "expected a valid constant value, but got %s",
     "expected option or rpc in service, got %s",
     "unexpected %s at top level definition"}

\* The message msg shows the name: it was made with a token of that text.
NamesField(msg, name) ==
    /\ msg[1] \in TokenFormats
    /\ msg[Len(msg)].Text = name

\* The position of the first field of the item that starts with "repeated".
FirstRepeated(item) ==
    CHOOSE i \in 1..Len(item.reps) :
        item.reps[i] /\ \A j \in 1..(i - 1) : ~item.reps[j]

\* A oneof with a field that starts with "repeated" was parsed.
RepeatedInOneOf ==
    /\ pc = "done"
    /\ TestItem.is = "oneof"
    /\ \E i \in 1..Len(TestItem.reps) : TestItem.reps[i]

\* C17 (as claimed): a oneof that holds a field introduced by "repeated"
\* makes Parse fail, and the error shows the name of that field.
C17_RepeatedInOneOf ==
    RepeatedInOneOf =>
        /\ err # <<>>
        /\ NamesField(err[1], FieldNames[FirstRepeated(TestItem)])

\* A map field was parsed.
MapParsed == pc = "done" /\ TestItem.is = "map"

\* C18: a map field that is well formed after its key is parsed exactly
\* when the key is one of the key types, and the Map then holds that key
\* type; with any other key token Parse fails, over the key.
C18_MapKeyType ==
    MapParsed =>
        IF TestItem.key \in Spellings(KeyTypeKinds)
        THEN /\ err = <<>>
             /\ Len(proto[1].Messages[1].Maps) = 1
             /\ LowerName(proto[1].Messages[1].Maps[1].KeyType.Kind) = TestItem.key
        ELSE /\ err # <<>>
             /\ err[1][1] = "expected key type, got %s"

\* C18 witness: a map with the key type bytes was refused, after a map with
\* everything else in place.
C18_Witness ==
    /\ MapParsed
    /\ TestItem.key = LowerName("Bytes")
    /\ err = << <<"expected key type, got %s", [Kind |-> "Bytes", Text |-> <<>>]>> >>

\* A field was parsed as the last item of the message.
FieldParsed == pc = "done" /\ TestItem.is = "field"

\* The word that is the type of a field item.
TypeWord(item) == item.words[IF item.reps[1] THEN 2 ELSE 1]

\* C19 (as claimed): a field whose type is a predefined type or a
\* user-defined type of one or more identifiers joined by dots is parsed,
\* and the Field holds the whole of the type as it was written.
C19_FieldTypes ==
    FieldParsed =>
        /\ err = <<>>
        /\ LET fields == proto[1].Messages[1].Fields
               f == fields[Len(fields)]
               w == TypeWord(TestItem)
           IN /\ f.Repeated = TestItem.reps[1]
              /\ IF Type(w) # "Illegal"
                 THEN f.Type = [Kind |-> Type(w), Text |-> <<>>]
                 ELSE f.Type.Text = w

\* A reserved statement was parsed and Parse returned no error.
ReservedParsed == pc = "done" /\ TestItem.is = "reserved" /\ err = <<>>

\* C20 (as claimed): no Reserved of a Proto that Parse returned without an
\* error has names together with numbers or ranges.
C20_ReservedExclusive ==
    ReservedParsed =>
        \A i \in 1..Len(proto[1].Messages[1].Reserveds) :
            LET r == proto[1].Messages[1].Reserveds[i]
            IN ~(r.Names # <<>> /\ (r.IDs # <<>> \/ r.Ranges # <<>>))


----------------------------------------------------------------------------
(* Parse on a file made of whole statements.  A statement is recorded with *)
(* its production, its words, and what it was written from: the prefix and *)
(* the name of an option (or the name of the node), whether a '.' joins    *)
(* the two, the text of its constant, and the number of empty statements   *)
(* put into its body.                                                      *)

Stmt(is, words, prefix, name, joint, value, semis) ==
    [is |-> is, words |-> words, prefix |-> prefix, name |-> name,
     joint |-> joint, value |-> value, semis |-> semis]

\* ws[1].ws[2]. ... as one word.
RECURSIVE Dotted(_)
Dotted(ws) ==
    IF ws = <<>> THEN <<>>
    ELSE IF Len(ws) = 1 THEN ws[1]
    ELSE (ws[1] \o <<".">>) \o Dotted(Tail(ws))

\* An option name as the grammar writes it: "(" prefix ")" then the name,
\* with a '.' between the two when joint is TRUE and a space otherwise.
OptionNames ==
    {n \in [prefix : {<<>>, << <<"a">> >>, << <<"a">>, <<"b">> >>},
            name : {<<>>, << <<"c">> >>, << <<"c">>, <<"d">> >>},
            joint : BOOLEAN] :
        n.joint \/ (n.prefix # <<>> /\ n.name # <<>>)}

OptionNameText(n) ==
    (IF n.prefix = <<>> THEN <<>> ELSE (<<"(">> \o Dotted(n.prefix)) \o <<")">>)
    \o (IF n.prefix # <<>> /\ n.name # <<>>
        THEN (IF n.joint THEN <<".">> ELSE <<" ">>) ELSE <<>>)
    \o Dotted(n.name)

\* The texts tried as the constant of an option.
ConstantTexts ==
    {<<"1">>, <<"1", ".", "5">>, <<"0", "x", "1", "F">>, <<"0", "1", "7">>,
     <<"\"", "s", "\"">>, LowerName("True"), LowerName("False"),
     <<"+", "1">>, <<"-", "1", ".", "5">>, <<"-", "0", "x", "1", "F">>,
     <<"+", " ", "0", "1", "7">>,
     <<"x">>, <<"x", ".", "y">>,
     <<"-", "x">>, <<"-", "\"", "s", "\"">>, <<"+">> \o LowerName("True"),
     <<"-", "-", "1">>, <<"-">>,
     LowerName("Syntax"), Int32Word, <<"{">>, <<"1", "e">>, <<"#">>, <<>>}

\* option name = constant ;
OptionStmts ==
    {Stmt("option",
          <<LowerName("Option"), OptionNameText(n), <<"=">>, c, <<";">>>>,
          n.prefix, n.name, n.joint, c, 0) :
        n \in OptionNames, c \in ConstantTexts}

\* message M { int32 a = 1 [ name = constant ] ; }
FieldOptionStmts ==
    {Stmt("field_option",
          <<LowerName("Message"), <<"M">>, <<"{">>, Int32Word, <<"a">>, <<"=">>,
            <<"1">>, <<"[">>, OptionNameText(n), <<"=">>, c, <<"]">>, <<";">>,
            <<"}">>>>,
          n.prefix, n.name, n.joint, c, 0) :
        n \in OptionNames, c \in ConstantTexts}

\* The items of a body, each written as a short word: a and b are the
\* fields int32 a = 1; and int32 b = 1;, ";" is an empty statement, o is
\* an option, r is an rpc that ends with ';', and r{...} is an rpc with a
\* body of options and empty statements.
OptionWords == <<LowerName("Option"), <<"x">>, <<"=">>, <<"1">>, <<";">>>>

RPCWords ==
    <<LowerName("RPC"), <<"R">>, <<"(">>, <<"A">>, <<")">>, LowerName("Returns"),
      <<"(">>, <<"B">>, <<")">>>>

RECURSIVE RPCBodyWords(_, _)
RPCBodyWords(item, i) ==
    IF i > Len(item) THEN <<>>
    ELSE (IF item[i] = "o" THEN OptionWords ELSE << <<item[i]>> >>)
         \o RPCBodyWords(item, i + 1)

BodyItemWords(item) ==
    IF item \in {<<"a">>, <<"b">>} THEN FieldWords(FALSE, Int32Word, item)
    ELSE IF item = <<"o">> THEN OptionWords
    ELSE IF item = <<"r">> THEN RPCWords \o << <<";">> >>
    ELSE IF item[1] = "r" THEN RPCWords \o RPCBodyWords(item, 2)
    ELSE <<item>>

RECURSIVE BodyWords(_, _)
BodyWords(body, i) ==
    IF i > Len(body) THEN <<>>
    ELSE BodyItemWords(body[i]) \o BodyWords(body, i + 1)

\* The empty statements of a body and of the bodies inside it.
RECURSIVE CountSemis(_, _)
CountSemis(body, i) ==
    IF i > Len(body) THEN 0
    ELSE Len(SelectSeq(body[i], LAMBDA r : r = ";")) + CountSemis(body, i + 1)

\* message M { oneof o { body } }
OneOfStmt(body) ==
    Stmt("oneof",
         (<<LowerName("Message"), <<"M">>, <<"{">>, LowerName("Oneof"), <<"o">>,
            <<"{">>>> \o BodyWords(body, 1)) \o <<<<"}">>, <<"}">>>>,
         <<>>, body, TRUE, <<>>, CountSemis(body, 1))

OneOfBodies == Strings({<<"a">>, <<"b">>, <<";">>}, MaxBody)

\* service S { body }
ServiceStmt(body) ==
    Stmt("service",
         (<<LowerName("Service"), <<"S">>, <<"{">>>> \o BodyWords(body, 1))
            \o <<<<"}">>>>,
         <<>>, body, TRUE, <<>>, CountSemis(body, 1))

ServiceBodies ==
    Strings({<<"o">>, <<";">>, <<"r">>, <<"r", "{", "}">>,
             <<"r", "{", "o", "}">>, <<"r", "{", ";", "}">>,
             <<"r", "{", ";", "o", "}">>, <<"r", "{", "o", ";", "}">>},
            MaxSvcBody)

\* Two statements of each of the five kinds that fill a list of the Proto.
ImportStmts ==
    {Stmt("import", <<LowerName("Import"), <<"\"", "a", "\"">>, <<";">>>>,
          <<>>, <<>>, TRUE, <<>>, 0),
     Stmt("import",
          <<LowerName("Import"), LowerName("Public"), <<"\"", "b", "\"">>, <<";">>>>,
          <<>>, <<>>, TRUE, <<>>, 0)}

TopOptionStmts ==
    {st \in OptionStmts :
        /\ st.value = <<"1">>
        /\ \/ st.prefix = <<>> /\ st.name = << <<"c">> >>
           \/ st.prefix = << <<"a">> >> /\ st.name = <<>>}

MessageStmts ==
    {Stmt("message", <<LowerName("Message"), <<"A">>, <<"{">>, <<"}">>>>,
          <<>>, <<>>, TRUE, <<>>, 0),
     Stmt("message",
          <<LowerName("Message"), <<"B">>, <<"{">>>>
             \o (FieldWords(FALSE, Int32Word, <<"a">>) \o <<<<"}">>>>),
          <<>>, <<>>, TRUE, <<>>, 0)}

EnumStmts ==
    {Stmt("enum",
          <<LowerName("Enum"), <<"E">>, <<"{">>, <<"Z">>, <<"=">>, <<"0">>,
            <<";">>, <<"}">>>>,
          <<>>, <<>>, TRUE, <<>>, 0),
     Stmt("enum",
          <<LowerName("Enum"), <<"F">>, <<"{">>, <<"Z">>, <<"=">>, <<"0">>,
            <<";">>, <<"}">>>>,
          <<>>, <<>>, TRUE, <<>>, 0)}

TopServiceStmts == {ServiceStmt(<<>>), ServiceStmt(<< <<"r">> >>)}

TopStmts ==
    ImportStmts \cup TopOptionStmts \cup MessageStmts \cup EnumStmts
    \cup TopServiceStmts

FileInputs ==
    {<<st>> : st \in OptionStmts \cup FieldOptionStmts}
    \cup {<<OneOfStmt(b)>> : b \in OneOfBodies}
    \cup {<<ServiceStmt(b)>> : b \in ServiceBodies}
    \cup Strings(TopStmts, MaxTop)

RECURSIVE StmtsWords(_, _)
StmtsWords(fs, i) ==
    IF i > Len(fs) THEN <<>> ELSE fs[i].words \o StmtsWords(fs, i + 1)

\* syntax = "proto3";statements
FileSource(fs) == FragText("syntax_dq") \o JoinWords(StmtsWords(fs, 1))

InitFile ==
    /\ frags \in FileInputs
    /\ p = NewPeeker(FileSource(frags))
    /\ pc = "start"
    /\ next = NoToken
    /\ proto = <<>>
    /\ err = <<>>
    /\ NotScanning
    /\ call = NoCall

NextFile == ParseCall

SpecFile == InitFile /\ [][NextFile]_vars

----------------------------------------------------------------------------
(* Claims about options and constants *)

\* The statement a file of one statement holds.
TestStmt == frags[1]

\* The Option node the statement under test was parsed to.
ParsedOption ==
    IF TestStmt.is = "option" THEN proto[1].Options[1]
    ELSE proto[1].Messages[1].Fields[1].Options[1]

\* The FullIdentifier written with the words ws.
IdentTokens(ws) == [i \in 1..Len(ws) |-> [Kind |-> "Identifier", Text |-> ws[i]]]

\* The constants that are one literal, a signed number or a full identifier.
GoodConstants ==
    {<<"1">>, <<"1", ".", "5">>, <<"0", "x", "1", "F">>, <<"0", "1", "7">>,
     <<"\"", "s", "\"">>, LowerName("True"), LowerName("False"),
     <<"+", "1">>, <<"-", "1", ".", "5">>, <<"-", "0", "x", "1", "F">>,
     <<"+", " ", "0", "1", "7">>, <<"x">>, <<"x", ".", "y">>}

OptionParsed ==
    /\ pc = "done"
    /\ Len(frags) = 1
    /\ TestStmt.is \in {"option", "field_option"}
    /\ (TestStmt.prefix # <<>> \/ TestStmt.name # <<>>)

\* C21: an option whose name is "(" fullIdent ")" followed by one or more
\* "." ident segments parses, with Prefix the parenthesized identifier and
\* Name the segments after it; a name that is only the parenthesized part or
\* only a dotted identifier parses as well and leaves the other part empty.
C21_OptionName ==
    (OptionParsed /\ TestStmt.joint /\ TestStmt.value \in GoodConstants)
        => /\ err = <<>>
           /\ ParsedOption.Prefix = IdentTokens(TestStmt.prefix)
           /\ ParsedOption.Name = IdentTokens(TestStmt.name)

\* The tokens of the constant of the statement under test, the EOF that
\* ends them included.
ConstantTokens ==
    LET es == ScanAll(New(TestStmt.value))
    IN [i \in 1..Len(es) |-> es[i].tok]

ConstantParsed ==
    /\ OptionParsed
    /\ ~(TestStmt.joint /\ TestStmt.prefix # <<>> /\ TestStmt.name # <<>>)

ConstantErrors ==
    {"expected number after %v, got %v",
     "expected a valid constant value, but got %s"}

----------------------------------------------------------------------------
(* Claims about empty statements inside bodies *)

\* A body without its empty statements and without those of the bodies
\* inside it.
RECURSIVE WithoutSemis(_, _)
WithoutSemis(body, i) ==
    IF i > Len(body) THEN <<>>
    ELSE (IF body[i] = <<";">> THEN <<>>
          ELSE <<SelectSeq(body[i], LAMBDA r : r # ";")>>)
         \o WithoutSemis(body, i + 1)

OneOfWithSemis ==
    /\ pc = "done"
    /\ Len(frags) = 1
    /\ TestStmt.is = "oneof"
    /\ TestStmt.semis > 0

\* C23: inside a oneof body an isolated ';' is an empty statement: it is
\* skipped, and the oneof parses to the node it parses to without the ';'.
C23_OneOfEmptyStatement ==
    OneOfWithSemis =>
        LET plain == Parse(FileSource(<<OneOfStmt(WithoutSemis(TestStmt.name, 1))>>))
        IN err = <<>> /\ proto = plain.proto

ServiceWithSemis ==
    /\ pc = "done"
    /\ Len(frags) = 1
    /\ TestStmt.is = "service"
    /\ TestStmt.semis > 0

\* C24: inside a service body and inside the braced body of an rpc an
\* isolated ';' is an empty statement: it is skipped and causes no parse
\* error.
C24_ServiceEmptyStatement ==
    ServiceWithSemis =>
        LET plain == Parse(FileSource(<<ServiceStmt(WithoutSemis(TestStmt.name, 1))>>))
        IN err = <<>> /\ proto = plain.proto

----------------------------------------------------------------------------
(* Claims about the statements of a file *)

\* The file is made of import, option, message, enum and service statements.
TopInput == pc = "done" /\ \A i \in 1..Len(frags) : frags[i] \in TopStmts

\* The node that the statement st parses to in a file of its own.
OwnNode(st) ==
    LET pr == Parse(FileSource(<<st>>)).proto[1]
    IN CASE st.is = "import" -> pr.Imports[1]
         [] st.is = "option" -> pr.Options[1]
         [] st.is = "message" -> pr.Messages[1]
         [] st.is = "enum" -> pr.Enums[1]
         [] st.is = "service" -> pr.Services[1]

\* The nodes of the statements of fs that are of the production is, in the
\* order of fs.
RECURSIVE Collected(_, _)
Collected(fs, is) ==
    IF fs = <<>> THEN <<>>
    ELSE (IF fs[1].is = is THEN <<OwnNode(fs[1])>> ELSE <<>>)
         \o Collected(Tail(fs), is)

\* C25: after the syntax statement, import, option, message, enum and
\* service statements are accepted in any interleaving, and each list of
\* the Proto holds one element for each statement of its kind, in the order
\* of the source.
C25_ListsInSourceOrder ==
    TopInput =>
        /\ err = <<>>
        /\ proto[1].Imports = Collected(frags, "import")
        /\ proto[1].Options = Collected(frags, "option")
        /\ proto[1].Messages = Collected(frags, "message")
        /\ proto[1].Enums = Collected(frags, "enum")
        /\ proto[1].Services = Collected(frags, "service")

\* Two different messages with an import between them were parsed.
C25_Witness ==
    /\ TopInput
    /\ Len(frags) = 3
    /\ frags[1].is = "message" /\ frags[3].is = "message" /\ frags[1] # frags[3]
    /\ frags[2].is = "import"
    /\ err = <<>>
    /\ Len(proto[1].Messages) = 2

----------------------------------------------------------------------------
(* Claims about the tokens Scan returns *)

\* The kinds whose tokens carry no text, and those whose tokens carry one.
BareKinds ==
    {"EOF", "True", "False"} \cup KeywordKinds \cup TypeKinds
    \cup PunctuationKinds
TextKinds ==
    {"Identifier", "StringLiteral", "Comment", "Illegal"} \cup NumberKinds

WordRunes == Letter \cup Dec \cup {"_"}

\* The Scan calls that met a letter.
WordScans ==
    {i \in 1..Len(toks) :
        At(scn.src, TokStart(scn.src, toks[i].from) + 1) \in Letter}

\* What an identifier-shaped word is: true and false first, then a keyword,
\* then a predefined type, and an Identifier with the word as its text if
\* it is none of them.
ClaimWord(w) ==
    IF w = <<"t", "r", "u", "e">> THEN [Kind |-> "True", Text |-> <<>>]
    ELSE IF w = <<"f", "a", "l", "s", "e">> THEN [Kind |-> "False", Text |-> <<>>]
    ELSE IF w \in Spellings(KeywordKinds)
    THEN [Kind |-> CHOOSE k \in KeywordKinds : LowerName(k) = w, Text |-> <<>>]
    ELSE IF w \in Spellings(TypeKinds)
    THEN [Kind |-> CHOOSE k \in TypeKinds : LowerName(k) = w, Text |-> <<>>]
    ELSE [Kind |-> "Identifier", Text |-> w]

\* C26: a token Scan returns has an empty Text exactly when its kind is
\* EOF, True, False, a keyword, a predefined type or a punctuation mark, and
\* a non-empty Text when it is an Identifier, a literal, a Comment or
\* Illegal; an identifier-shaped word is True or False first, then a
\* keyword, then a type, and an Identifier only if it is none of these.
C26_TextAndWords ==
    /\ \A i \in 1..Len(toks) :
          /\ toks[i].tok.Kind \in BareKinds \cup TextKinds
          /\ (toks[i].tok.Text = <<>>) <=> (toks[i].tok.Kind \in BareKinds)
    /\ \A i \in WordScans :
          LET st == TokStart(scn.src, toks[i].from)
              w == SubSeq(scn.src, st + 1, RunEnd(scn.src, st + 1, WordRunes))
          IN toks[i].tok = ClaimWord(w)

\* "message;" was scanned: the keyword without a text, then the ';'.
C26_Witness ==
    /\ scn.src = LowerName("Message") \o <<";">>
    /\ Len(toks) = 2
    /\ toks[1].tok = [Kind |-> "Message", Text |-> <<>>]
    /\ toks[2].tok = [Kind |-> "Semicolon", Text |-> <<>>]

----------------------------------------------------------------------------
(* Claims about the ranges of a reserved statement *)

\* C27: every Range of a Reserved node of a successful parse has a decimal
\* literal as From and a decimal literal as To; a string literal followed
\* by "to" is never accepted as a range.
C27_RangesDecimal ==
    ReservedParsed =>
        \A i \in 1..Len(proto[1].Messages[1].Reserveds) :
            LET r == proto[1].Messages[1].Reserveds[i]
            IN \A j \in 1..Len(r.Ranges) :
                  /\ r.Ranges[j].From.Kind = "DecimalLiteral"
                  /\ r.Ranges[j].To.Kind = "DecimalLiteral"

----------------------------------------------------------------------------
(* Claims about the end of the input *)

\* Every Scan made so far that began with input left read at least one
\* rune, and every Scan that began at the end of the input returned EOF.
ScansGoForward ==
    \A i \in 1..Len(toks) :
        /\ toks[i].from < Len(scn.src) => toks[i].to > toks[i].from
        /\ toks[i].from = Len(scn.src) =>
              toks[i].tok.Kind = "EOF" /\ toks[i].to = toks[i].from

EOFReturned == \E i \in 1..Len(toks) : toks[i].tok.Kind = "EOF"

\* C28: every Scan made while input remains reads at least one rune, so on
\* an input of n runes at most n calls of Scan return something else than
\* EOF and EOF is returned after finitely many calls; and once the input
\* is used up every further Scan returns EOF.
C28_ScanReachesEOF ==
    /\ ScansGoForward
    /\ Len(toks) > Len(scn.src) => EOFReturned

\* "1;" was scanned to its end and Scan was called twice more.
C28_Witness ==
    /\ scn.src = <<"1", ";">>
    /\ Len(toks) = 4
    /\ toks[2].to = 2
    /\ toks[3].tok.Kind = "EOF"
    /\ toks[4].tok.Kind = "EOF"

\* C29: Scan returns an EOF token only when no rune of the input remains;
\* no rune of the input, the NUL rune included, makes Scan return EOF with
\* unread input behind it.
C29_EOFOnlyAtEnd ==
    \A i \in 1..Len(toks) :
        toks[i].tok.Kind = "EOF" => toks[i].to = Len(scn.src)

\* The Scan calls that met a quote with no quote of its kind after it.
UnclosedStringScans ==
    {i \in 1..Len(toks) :
        LET st == TokStart(scn.src, toks[i].from)
        IN /\ At(scn.src, st + 1) \in {"'", "\""}
           /\ \A j \in (st + 2)..Len(scn.src) : scn.src[j] # scn.src[st + 1]}

\* C30: the text of every StringLiteral token has at least 2 runes and
\* begins and ends with the same quote; a string whose closing quote is
\* missing before the end of the input is not returned as a StringLiteral
\* but as Illegal.
C30_StringLiteralClosed ==
    /\ \A i \in 1..Len(toks) :
          toks[i].tok.Kind = "StringLiteral" =>
              LET text == toks[i].tok.Text
              IN /\ Len(text) >= 2
                 /\ text[1] \in {"'", "\""}
                 /\ text[Len(text)] = text[1]
    /\ \A i \in UnclosedStringScans : toks[i].tok.Kind = "Illegal"


====
